---- MODULE Spec2Model ----
(***************************************************************************)
(* State-machine model of the RAG Orchestrator (src/rag_module/app), of    *)
(* the Gateway (src/aws_service/app), of the Metrics Sink                  *)
(* (src/metrics_lambda) and of the Document Service (src/pdf_service/app). *)
(* Spec and AuthSpec are the RAG Orchestrator without and with a service   *)
(* token, GatewaySpec is the Gateway, MetricsSpec the Metrics Sink and     *)
(* PdfSpec the Document Service; the request being answered (phase, op,    *)
(* request, authorization, response, trace) belongs to the service the     *)
(* specification is about.                                                 *)
(*                                                                         *)
(* One worker handles one request at a time.  A handler action models the  *)
(* whole handler: request validation, every call it makes to a             *)
(* collaborator (Document Service, Chunker, Embedder, Vector Index,        *)
(* Generative Model, Metrics Sink) and the response.  The calls a handler  *)
(* makes are recorded, in order, in `trace`; `Deliver` hands the response  *)
(* to the caller and the worker becomes idle again.                        *)
(*                                                                         *)
(* Strings that the code only passes around (ids, chunk texts, messages)   *)
(* are TLA+ strings; the question, whose characters the code inspects      *)
(* (length, strip), is a run-length encoded string.  Similarity scores     *)
(* are integers in hundredths, and a float quotient is kept as the exact   *)
(* fraction num/den.                                                       *)
(***************************************************************************)
EXTENDS Integers, Sequences, FiniteSets, TLC

VARIABLES
    index,        \* utils.index: the Vector Index, record id -> [values, metadata]
    indexBefore,  \* the Vector Index as it was when the request being answered arrived
    metricsCfg,   \* utils.METRICS_LAMBDA_NAME / METRICS_LAMBDA_URL: "lambda", "url" or "none"
    serviceToken, \* the SERVICE_TOKEN of the deployment ("" when it is not set)
    documents,    \* the Gateway's metadata table: doc_id -> item
    blobs,        \* the keys of the objects in the Gateway's bucket
    agentMetrics, \* the Metrics Sink's table AgentMetrics: <<run_id, timestamp>> -> item
    pdfDocuments, \* the Document Service's table "documents": doc_id -> row
    pdfBucket,    \* the keys of the objects in the Document Service's bucket
    uuids,        \* the number of ids the Document Service's uuid4 has returned
    fileLocationColumn, \* whether the mapped class Document takes file_location
    authorization, \* the Authorization header of the request being answered ("": none)
    phase,        \* "idle": waiting for a request; "done": a response is ready
    op,           \* the route of the request being answered: "none", "index", "query"
    request,      \* the request body as sent
    response,     \* [status, body] of the answer
    trace         \* the calls the handler made to its collaborators, in order

vars == <<index, indexBefore, metricsCfg, serviceToken, documents, blobs,
          agentMetrics, pdfDocuments, pdfBucket, uuids, fileLocationColumn,
          authorization, phase, op, request, response, trace>>

\* The state of the Gateway's stores.
gatewayState == <<documents, blobs>>
\* The state of the Metrics Sink's store.
sinkState == <<agentMetrics>>
\* The state of the Document Service's stores, and its build.
pdfState == <<pdfDocuments, pdfBucket, uuids, fileLocationColumn>>

----------------------------------------------------------------------------
(* Bounds of the model *)

\* Largest number of chunks a document's text splits into.
MaxChunks == 2

----------------------------------------------------------------------------
(* Program constants *)

\* schemas.IndexRequest.document_ids: max_length
IndexMaxIds == 100
\* schemas.QueryRequest.document_ids: max_length
QueryMaxIds == 50
\* schemas.QueryRequest.question: max_length
QuestionMaxLen == 1000
\* utils.TOP_K default
TOP_K == 5

----------------------------------------------------------------------------
(* Generic helpers *)

Range(s) == {s[i] : i \in 1..Len(s)}

Min2(a, b) == IF a <= b THEN a ELSE b

\* The ids "d1" .. "dn": a list of n distinct ids no service knows.
Bulk(n) == [i \in 1..n |-> "d" \o ToString(i)]

----------------------------------------------------------------------------
(* The environment of the indexing flow *)

\* Ids the Document Service may hold a document for; any other id is absent.
KnownDocs == {"a", "a_1"}

\* The text versions a known document can have when it is fetched.
DocVersions(d) == IF d = "a" THEN {"x", "y"} ELSE {"z"}

\* The chunks text_splitter.split_text yields for the text of version v that
\* splits into n chunks: "v0", "v1", ...
ChunksOf(v, n) == [i \in 1..n |-> v \o ToString(i - 1)]

Texts(d) == {ChunksOf(v, n) : v \in DocVersions(d), n \in 0..MaxChunks}

\* What happens to one document in one index call: the call that raises
\* ("none": no call raises), the raised error's message, and the chunks the
\* text splits into.
NotFound == [raises |-> "get_document_text", msg |-> "404 Client Error: Not Found", chunks |-> <<>>]

DocOutcomes(d) ==
    {NotFound,
     [raises |-> "get_document_text", msg |-> "Connection refused", chunks |-> <<>>],
     [raises |-> "split_text", msg |-> "expected string", chunks |-> <<>>]}
    \cup {[raises |-> "embed_texts", msg |-> "encode failed", chunks |-> c] : c \in Texts(d)}
    \cup {[raises |-> "upsert", msg |-> "upsert failed", chunks |-> c] : c \in Texts(d)}
    \cup {[raises |-> "none", msg |-> "", chunks |-> c] : c \in Texts(d)}

AllDocOutcomes == UNION {DocOutcomes(d) : d \in KnownDocs}

\* An environment for an index call over ids: an outcome for every known
\* document (NotFound for the ones the call does not name).
IndexEnvs(ids) ==
    {e \in [KnownDocs -> AllDocOutcomes] :
        \A d \in KnownDocs :
            IF d \in Range(ids) THEN e[d] \in DocOutcomes(d) ELSE e[d] = NotFound}

OutcomeOf(env, doc_id) == IF doc_id \in KnownDocs THEN env[doc_id] ELSE NotFound

----------------------------------------------------------------------------
(* Service authentication of the RAG Orchestrator: auth.py *)

\* The Authorization headers callers send.  Without a configured token
\* nothing is asked of a caller, and calls carry no header.
Authorizations(token) ==
    IF token = "" THEN {""} ELSE {"", "Bearer " \o token, "Bearer invalid-token"}

\* auth.verify_token (lines 9-36): the status it answers with, 200 standing
\* for a returned identity.  main.py imports auth, but neither route
\* declares verify_token as a dependency, so no request runs it.
verify_token(token, header) ==
    IF token = "" THEN 200
    ELSE IF header = "" THEN 401
    ELSE IF header # "Bearer " \o token THEN 401
    ELSE 200

----------------------------------------------------------------------------
(* Request validation: schemas.py *)

\* str.strip() of an id leaves nothing
BlankIds == {"", " ", "  "}

\* Mutant of validate_document_ids: the duplicate check is left out.
validate_document_ids_no_unique(v, max) ==
    /\ Len(v) >= 1
    /\ Len(v) <= max
    /\ \A i \in 1..Len(v) : v[i] \notin BlankIds

\* Field(min_length=1, max_length=max) and the field validator of
\* document_ids: non-empty, at most max ids, no duplicates, no blank id.
validate_document_ids(v, max) ==
    /\ Len(v) >= 1
    /\ Len(v) <= max
    /\ Cardinality(Range(v)) = Len(v)
    /\ \A i \in 1..Len(v) : v[i] \notin BlankIds

IndexRequest_valid(req) == validate_document_ids(req.document_ids, IndexMaxIds)

----------------------------------------------------------------------------
(* The Vector Index *)

\* Mutant of Upsert: the records of the documents being written are dropped
\* first, so that a document's records are replaced as a whole.
Upsert_replace_document(idx, vectors) ==
    LET docs == {vectors[i].metadata.doc_id : i \in 1..Len(vectors)}
        ids == {vectors[i].id : i \in 1..Len(vectors)}
        kept == {k \in DOMAIN idx : idx[k].metadata.doc_id \notin docs}
        at(k) == CHOOSE i \in 1..Len(vectors) : vectors[i].id = k
    IN  [k \in kept \cup ids |->
            IF k \in ids
            THEN [values |-> vectors[at(k)].values, metadata |-> vectors[at(k)].metadata]
            ELSE idx[k]]

\* index.upsert(vectors): create or replace each record by id, in list order.
Upsert(idx, vectors) ==
    LET ids == {vectors[i].id : i \in 1..Len(vectors)}
        last(k) == CHOOSE i \in 1..Len(vectors) :
                       /\ vectors[i].id = k
                       /\ \A j \in 1..Len(vectors) : vectors[j].id = k => j <= i
    IN  [k \in (DOMAIN idx) \cup ids |->
            IF k \in ids
            THEN [values |-> vectors[last(k)].values, metadata |-> vectors[last(k)].metadata]
            ELSE idx[k]]

\* The embedding the model computes for a text (a deterministic function of it).
EmbeddingOf(t) == "vec:" \o t

\* utils.embed_texts: one embedding per text, in order
embed_texts(texts) == [i \in 1..Len(texts) |-> EmbeddingOf(texts[i])]

\* Mutant of to_upsert: the chunk index in the record id starts at 1.
to_upsert_from_one(doc_id, embeddings, chunks) ==
    [i \in 1..Min2(Len(embeddings), Len(chunks)) |->
        [id |-> doc_id \o "_" \o ToString(i),
         values |-> embeddings[i],
         metadata |-> [doc_id |-> doc_id, text |-> chunks[i]]]]

\* Mutant of to_upsert: the record id is derived from the chunk's content
\* as well as from its position.
to_upsert_content_id(doc_id, embeddings, chunks) ==
    [i \in 1..Min2(Len(embeddings), Len(chunks)) |->
        [id |-> doc_id \o "_" \o ToString(i - 1) \o "_" \o chunks[i],
         values |-> embeddings[i],
         metadata |-> [doc_id |-> doc_id, text |-> chunks[i]]]]

\* Mutant of to_upsert: the record id is the chunk index alone.
to_upsert_chunk_id(doc_id, embeddings, chunks) ==
    [i \in 1..Min2(Len(embeddings), Len(chunks)) |->
        [id |-> ToString(i - 1),
         values |-> embeddings[i],
         metadata |-> [doc_id |-> doc_id, text |-> chunks[i]]]]

\* main.py line 73: the records built for one document
to_upsert(doc_id, embeddings, chunks) ==
    [i \in 1..Min2(Len(embeddings), Len(chunks)) |->
        [id |-> doc_id \o "_" \o ToString(i - 1),
         values |-> embeddings[i],
         metadata |-> [doc_id |-> doc_id, text |-> chunks[i]]]]

----------------------------------------------------------------------------
(* POST /rag/index: main.index_documents *)

\* One call to a collaborator, as recorded in the trace: the function, the
\* document it is made for ("" in a query), its argument, whether it raised
\* and with which message, and what it returned (<<>> when nothing is kept).
\* raises names the function that raises in this environment.
Call(fn, doc, arg, raises, msg, ret) ==
    [fn |-> fn, doc |-> doc, arg |-> arg, raised |-> (raises = fn),
     error |-> IF raises = fn THEN msg ELSE "", ret |-> ret]

\* Mutant of Failure: the caught error's message is replaced by a fixed text.
Failure_fixed_reason(doc_id, reason) ==
    [doc_id |-> doc_id, status |-> "failure", reason |-> "indexing failed"]

Failure(doc_id, reason) == [doc_id |-> doc_id, status |-> "failure", reason |-> reason]
Success(doc_id) == [doc_id |-> doc_id, status |-> "success"]

\* Mutant of index_except: the failure is logged but not appended to results.
index_except_no_result(acc, doc_id, calls, e) ==
    [results |-> acc.results, trace |-> acc.trace \o calls, index |-> acc.index]

\* The except clause of the per-document try (lines 77-80), entered with the
\* calls made for the document and the message e of the exception caught:
\* record the failure and continue with the next id.
index_except(acc, doc_id, calls, e) ==
    [results |-> Append(acc.results, Failure(doc_id, e)),
     trace   |-> acc.trace \o calls,
     index   |-> acc.index]

\* The body of the loop for one id (lines 62-80).  acc is the state of the
\* handler so far: its results, the calls it made, the Vector Index.
index_one(acc, doc_id, o) ==
    LET fetch  == Call("get_document_text", doc_id, doc_id, o.raises, o.msg, <<>>)
        split  == Call("split_text", doc_id, <<>>, o.raises, o.msg, o.chunks)
        embed  == Call("embed_texts", doc_id, o.chunks, o.raises, o.msg, <<>>)
        vecs   == to_upsert(doc_id, embed_texts(o.chunks), o.chunks)
        upsert == Call("upsert", doc_id, vecs, o.raises, o.msg, <<>>)
    IN  IF fetch.raised THEN index_except(acc, doc_id, <<fetch>>, fetch.error)
        ELSE IF split.raised THEN index_except(acc, doc_id, <<fetch, split>>, split.error)
        ELSE IF embed.raised
             THEN index_except(acc, doc_id, <<fetch, split, embed>>, embed.error)
        ELSE IF upsert.raised
             THEN index_except(acc, doc_id, <<fetch, split, embed, upsert>>, upsert.error)
        ELSE [results |-> Append(acc.results, Success(doc_id)),
              trace   |-> acc.trace \o <<fetch, split, embed, upsert>>,
              index   |-> Upsert(acc.index, vecs)]

\* Mutant of index_loop: a failure ends the loop (break instead of continue).
RECURSIVE index_loop_break(_, _, _, _, _)
index_loop_break(acc, ids, env, lo, hi) ==
    IF lo > hi THEN acc
    ELSE IF lo = hi
         THEN IF acc.results # <<>> /\ acc.results[Len(acc.results)].status = "failure"
              THEN acc
              ELSE index_one(acc, ids[lo], OutcomeOf(env, ids[lo]))
    ELSE LET mid == (lo + hi) \div 2
         IN  CHOOSE r \in {index_loop_break(left, ids, env, mid + 1, hi) :
                             left \in {index_loop_break(acc, ids, env, lo, mid)}} : TRUE

\* The for loop of lines 61-80 over the ids at positions lo..hi, in list
\* order: the ids lo..mid first, then the ids mid+1..hi from the state the
\* first half left.  (The range is halved, and the state after the first
\* half is bound as a value, to keep the evaluation depth logarithmic in
\* the number of ids.)
RECURSIVE index_loop(_, _, _, _, _)
index_loop(acc, ids, env, lo, hi) ==
    IF lo > hi THEN acc
    ELSE IF lo = hi THEN index_one(acc, ids[lo], OutcomeOf(env, ids[lo]))
    ELSE LET mid == (lo + hi) \div 2
         IN  CHOOSE r \in {index_loop(left, ids, env, mid + 1, hi) :
                             left \in {index_loop(acc, ids, env, lo, mid)}} : TRUE

\* The handler: the results, the calls made and the Vector Index afterwards.
index_documents(req, env, idx) ==
    index_loop([results |-> <<>>, trace |-> <<>>, index |-> idx],
               req.document_ids, env, 1, Len(req.document_ids))

\* The request bodies sent to POST /rag/index.
IndexIdLists ==
    {<<>>, <<"a">>, <<"a_1">>, <<"a", "a_1">>, <<"b", "a">>, <<"a", "a">>,
     <<"a", " ">>, Bulk(IndexMaxIds), Bulk(IndexMaxIds + 1)}

IndexRequests == {[document_ids |-> ids] : ids \in IndexIdLists}

\* FastAPI answers a body that fails validation with 422 and never calls the handler.
Rejected == [status |-> 422, body |-> [detail |-> "validation error"]]

Index ==
    /\ phase = "idle"
    /\ \E req \in IndexRequests :
         /\ op' = "index"
         /\ request' = req
         /\ phase' = "done"
         /\ indexBefore' = index
         /\ authorization' \in Authorizations(serviceToken)
         /\ IF ~IndexRequest_valid(req)
            THEN /\ response' = Rejected
                 /\ trace' = <<>>
                 /\ index' = index
            ELSE \E env \in IndexEnvs(req.document_ids) :
                   LET r == index_documents(req, env, index)
                   IN  /\ response' = [status |-> 200, body |-> [results |-> r.results]]
                       /\ trace' = r.trace
                       /\ index' = r.index
    /\ UNCHANGED <<metricsCfg, serviceToken, gatewayState, sinkState, pdfState>>

----------------------------------------------------------------------------
(* Request validation of POST /rag/query: schemas.QueryRequest *)

Whitespace == {" ", "\t", "\n"}

\* A question is a run-length encoded string: a sequence of runs [c, n], n
\* copies of the character c, with n >= 1.
Run(c, n) == [c |-> c, n |-> n]

RECURSIVE StrLen(_)
StrLen(q) == IF q = <<>> THEN 0 ELSE q[1].n + StrLen(Tail(q))

RECURSIVE LStrip(_)
LStrip(q) == IF q # <<>> /\ q[1].c \in Whitespace THEN LStrip(Tail(q)) ELSE q

RECURSIVE RStrip(_)
RStrip(q) ==
    IF q # <<>> /\ q[Len(q)].c \in Whitespace THEN RStrip(SubSeq(q, 1, Len(q) - 1)) ELSE q

\* str.strip(): the question without its leading and trailing whitespace
Strip(q) == RStrip(LStrip(q))

\* Field(min_length=1, max_length=1000) of question (line 25): checked on the
\* string as sent, before the field validator runs.
question_field(v) == StrLen(v) >= 1 /\ StrLen(v) <= QuestionMaxLen

\* Mutant of validate_question: the question is checked but returned as sent.
validate_question_as_sent(v) == [ok |-> Strip(v) # <<>>, value |-> v]

\* validate_question (lines 42-46): raises on a blank question, else
\* returns the stripped question.
validate_question(v) == [ok |-> Strip(v) # <<>>, value |-> Strip(v)]

QueryRequest_valid(req) ==
    /\ validate_document_ids(req.document_ids, QueryMaxIds)
    /\ question_field(req.question)
    /\ validate_question(req.question).ok

\* The request the handler receives: the validators' return values.
QueryRequest_parsed(req) ==
    [document_ids |-> req.document_ids, question |-> validate_question(req.question).value]

----------------------------------------------------------------------------
(* The environment of the query flow *)

\* The ids uuid.uuid4() can return.
RunIds == {"r1", "r2"}

\* Similarity scores the Vector Index can report, in hundredths (cosine
\* similarity lies in [-1, 1]).
Scores == {-20, 60, 80}

\* Elapsed wall-clock time of a request, in milliseconds.
ElapsedMs == {12}

\* The record ids of the known documents, in a fixed order.
KnownDocsSeq == <<"a", "a_1">>
RecordSlots ==
    [j \in 1..(Len(KnownDocsSeq) * MaxChunks) |->
        KnownDocsSeq[((j - 1) \div MaxChunks) + 1] \o "_" \o ToString((j - 1) % MaxChunks)]

Reverse(s) == [i \in 1..Len(s) |-> s[Len(s) + 1 - i]]

\* Mutant of Candidates: the query is sent without the doc_id filter.
Candidates_unfiltered(idx, ids) ==
    LET Hit(k) == k \in DOMAIN idx
    IN  SelectSeq(RecordSlots, Hit)

\* index.query(vector, top_k, filter={"doc_id": {"$in": ids}}): the records
\* whose metadata doc_id is one of ids, at most top_k of them, nearest
\* first.  Which records are nearest is the index's choice: the candidates
\* in slot order or in reverse slot order, with non-increasing scores.
Candidates(idx, ids) ==
    LET Hit(k) == k \in DOMAIN idx /\ idx[k].metadata.doc_id \in Range(ids)
    IN  SelectSeq(RecordSlots, Hit)

NonIncreasing(n) ==
    {s \in [1..n -> Scores] : \A i \in 1..(n - 1) : s[i] >= s[i + 1]}

QueryMatches(idx, ids, top_k) ==
    LET cands == Candidates(idx, ids)
        n == Min2(top_k, Len(cands))
    IN  {[i \in 1..n |-> [id |-> r[i], score |-> s[i], metadata |-> idx[r[i]].metadata]] :
            r \in {cands, Reverse(cands)}, s \in NonIncreasing(n)}

\* What the Metrics Sink answers to one emission, per configuration.
SinkResponses(cfg) ==
    IF cfg = "lambda" THEN {"202", "500", "raise"}
    ELSE IF cfg = "url" THEN {"200", "500", "raise"}
    ELSE {"unused"}

\* The environment of one query: the run id, the call that raises
\* ("none": no call raises) with its message, the matches and the sink's answer.
QueryEnvs(idx, ids, cfg) ==
    LET Base == {[run_id |-> r, elapsed |-> t, sink |-> k] :
                    r \in RunIds, t \in ElapsedMs, k \in SinkResponses(cfg)}
        With(b, raises, msg, matches) ==
            [run_id |-> b.run_id, elapsed |-> b.elapsed, sink |-> b.sink,
             raises |-> raises, msg |-> msg, matches |-> matches]
    IN  {With(b, "embed_texts", "encode failed", <<>>) : b \in Base}
        \cup {With(b, "query", "index unavailable", <<>>) : b \in Base}
        \cup {With(b, f, IF f = "none" THEN "" ELSE "model endpoint timed out", m) :
                b \in Base, f \in {"call_llm", "none"}, m \in QueryMatches(idx, ids, TOP_K)}

----------------------------------------------------------------------------
(* utils.send_metrics *)

\* The body of the try (lines 91-106): whether it raises and whether the
\* sink took the record.
send_metrics_try(cfg, sink) ==
    IF cfg = "lambda"
    THEN [raised |-> sink = "raise", delivered |-> sink = "202"]
    ELSE IF cfg = "url"
    THEN [raised |-> sink \in {"raise", "500"}, delivered |-> sink = "200"]
    ELSE [raised |-> FALSE, delivered |-> FALSE]

\* Mutant of send_metrics: the exceptions of the body propagate.
send_metrics_no_catch(cfg, sink) == send_metrics_try(cfg, sink)

\* send_metrics (lines 89-108): every exception of the body is caught and printed.
send_metrics(cfg, sink) ==
    [raised |-> FALSE, delivered |-> send_metrics_try(cfg, sink).delivered]

----------------------------------------------------------------------------
(* POST /rag/query: main.query_rag *)

\* "\n".join(texts)
RECURSIVE JoinNl(_)
JoinNl(texts) ==
    IF texts = <<>> THEN ""
    ELSE IF Len(texts) = 1 THEN texts[1]
    ELSE texts[1] \o "\n" \o JoinNl(Tail(texts))

RECURSIVE SumScores(_)
SumScores(matches) ==
    IF matches = <<>> THEN 0 ELSE matches[1].score + SumScores(Tail(matches))

\* a / b on floats: raises ZeroDivisionError when b is 0
Quotient(a, b) ==
    IF b = 0 THEN [raised |-> TRUE, num |-> 0, den |-> 1]
    ELSE [raised |-> FALSE, num |-> a, den |-> b]

\* Mutant of confidence_score: no guard for an empty match list.
confidence_score_no_guard(matches) == Quotient(SumScores(matches), Len(matches))

\* line 121: the mean of the match scores, 0.0 without matches
confidence_score(matches) ==
    IF matches # <<>> THEN Quotient(SumScores(matches), Len(matches))
    ELSE Quotient(0, 1)

\* line 113: the prompt, as its parts
Prompt(context_text, question) ==
    <<"Based on the following context, please answer the question.\n\nContext:\n",
      context_text, "\n\nQuestion:\n", question, "\n\nAnswer:">>

\* utils.call_llm (lines 122-150): the answer, with the token counts the code reports
LlmResponse == [answer |-> "generated answer", tokens_consumed |-> 0, tokens_generated |-> 0]

MetricsPayload(run_id, consumed, generated, elapsed, conf, status) ==
    [run_id |-> run_id, agent_name |-> "RAGQueryAgent", tokens_consumed |-> consumed,
     tokens_generated |-> generated, response_time_ms |-> elapsed,
     confidence_score |-> conf, status |-> status]

\* One call of utils.send_metrics, as recorded in the trace.
Emit(cfg, sink, payload) ==
    LET r == send_metrics(cfg, sink)
    IN  [fn |-> "send_metrics", doc |-> "", arg |-> payload, raised |-> r.raised,
         error |-> IF r.raised THEN "metrics sink failed" ELSE "",
         ret |-> [delivered |-> r.delivered, sink |-> sink]]

\* schemas.QueryResponse (lines 48-54): the field constraints
QueryResponse_valid(body) ==
    /\ body.tokens_consumed >= 0
    /\ body.tokens_generated >= 0
    /\ body.response_time_ms >= 0
    /\ body.confidence_score.num >= 0
    /\ body.confidence_score.num <= 100 * body.confidence_score.den

\* exceptions.LLMError through rag_exception_handler (main.py lines 17-27)
LLMErrorMessage == "Failed to process RAG query"
\* Mutant of LLMErrorResponse: the caught exception's message is returned.
LLMErrorResponse_leak(e) ==
    [status |-> 500,
     body |-> [error_code |-> "LLM_ERROR", message |-> e, details |-> "null"]]

LLMErrorResponse(e) ==
    [status |-> 500,
     body |-> [error_code |-> "LLM_ERROR", message |-> LLMErrorMessage, details |-> "null"]]

\* The except clause of query_rag (lines 147-164), entered with the calls
\* made so far and the message e of the exception caught.
query_except(cfg, env, calls, e) ==
    LET failure_metrics == MetricsPayload(env.run_id, 0, 0, env.elapsed, Quotient(0, 1), "failed")
    IN  [response |-> LLMErrorResponse(e),
         trace    |-> Append(calls, Emit(cfg, env.sink, failure_metrics))]

\* The handler (lines 89-164) for a validated request.
query_rag(req, env, cfg) ==
    LET uuid   == Call("uuid4", "", <<>>, env.raises, env.msg, env.run_id)
        embed  == Call("embed_texts", "", <<req.question>>, env.raises, env.msg, <<>>)
        query  == Call("query", "", [top_k |-> TOP_K, filter |-> req.document_ids],
                       env.raises, env.msg, env.matches)
        context_text == JoinNl([i \in 1..Len(env.matches) |-> env.matches[i].metadata.text])
        llm    == Call("call_llm", "", Prompt(context_text, req.question),
                       env.raises, env.msg, LlmResponse)
        conf   == confidence_score(env.matches)
        payload == MetricsPayload(env.run_id, LlmResponse.tokens_consumed,
                                  LlmResponse.tokens_generated, env.elapsed, conf, "completed")
        emit   == Emit(cfg, env.sink, payload)
        body   == [run_id |-> env.run_id, answer |-> LlmResponse.answer,
                   tokens_consumed |-> LlmResponse.tokens_consumed,
                   tokens_generated |-> LlmResponse.tokens_generated,
                   response_time_ms |-> env.elapsed, confidence_score |-> conf]
    IN  IF embed.raised THEN query_except(cfg, env, <<uuid, embed>>, embed.error)
        ELSE IF query.raised THEN query_except(cfg, env, <<uuid, embed, query>>, query.error)
        ELSE IF llm.raised
             THEN query_except(cfg, env, <<uuid, embed, query, llm>>, llm.error)
        ELSE IF conf.raised
             THEN query_except(cfg, env, <<uuid, embed, query, llm>>, "float division by zero")
        ELSE IF emit.raised
             THEN query_except(cfg, env, <<uuid, embed, query, llm, emit>>, emit.error)
        ELSE IF ~QueryResponse_valid(body)
             THEN query_except(cfg, env, <<uuid, embed, query, llm, emit>>,
                               "validation error for QueryResponse")
        ELSE [response |-> [status |-> 200, body |-> body],
              trace    |-> <<uuid, embed, query, llm, emit>>]

\* The questions sent to POST /rag/query.
Questions ==
    {<<>>,
     <<Run(" ", 2)>>,
     <<Run(" ", 1), Run("q", 1), Run(" ", 1)>>,
     <<Run("q", QuestionMaxLen)>>,
     <<Run("q", QuestionMaxLen + 1)>>,
     <<Run("q", QuestionMaxLen), Run(" ", 1)>>}

QueryIdLists ==
    {<<>>, <<"a">>, <<"a", "a_1">>, <<"a", "a">>, <<"a", " ">>,
     Bulk(QueryMaxIds), Bulk(QueryMaxIds + 1)}

QueryRequests == {[document_ids |-> ids, question |-> q] : ids \in QueryIdLists, q \in Questions}

Query ==
    /\ phase = "idle"
    /\ \E req \in QueryRequests :
         /\ op' = "query"
         /\ request' = req
         /\ phase' = "done"
         /\ IF ~QueryRequest_valid(req)
            THEN /\ response' = Rejected
                 /\ trace' = <<>>
            ELSE \E env \in QueryEnvs(index, req.document_ids, metricsCfg) :
                   LET r == query_rag(QueryRequest_parsed(req), env, metricsCfg)
                   IN  /\ response' = r.response
                       /\ trace' = r.trace
    /\ indexBefore' = index
    /\ authorization' \in Authorizations(serviceToken)
    /\ UNCHANGED <<index, metricsCfg, serviceToken, gatewayState, sinkState, pdfState>>

----------------------------------------------------------------------------
(* The Gateway: src/aws_service/app/main.py *)

\* An attribute an item does not have, and a JSON null.
Missing == "<missing>"
Null == "null"

\* The inputs of the Gateway's callers.
GwDocIds == {"d1", "d2"}
Filenames == {"a.pdf", "b.pdf"}
CreateTags == {Null, "{category: test}"}
CreateKeys == {Null, "k1"}
UpdateTags == {Null, "{category: updated}"}
UpdateKeys == {Null, "k2"}
\* datetime.now(timezone.utc).isoformat()
Timestamps == {"t1", "t2"}

\* The caller credentials sent to the Gateway ("": none).
GatewayAuthorizations == {"", "Basic admin:password", "Basic admin:wrong"}

\* The Gateway's auth.verify_token: a call with the valid caller credential
\* passes (200), any other is answered 401.
gateway_verify_token(header) == IF header = "Basic admin:password" THEN 200 ELSE 401

Unauthorized == [status |-> 401, body |-> [detail |-> "Invalid or missing credentials"]]

\* Mutant of Protected: the query route lacks the auth dependency.
Protected_without_query ==
    {"create_document", "get_document", "update_document", "delete_document",
     "index_document"}

\* The routes whose signature declares Depends(auth.verify_token).
Protected ==
    {"create_document", "get_document", "update_document", "delete_document",
     "index_document", "aws_query"}

\* FastAPI's answer to an exception no handler catches.
InternalServerError == [status |-> 500, body |-> [detail |-> "Internal Server Error"]]

\* The outcome of a Gateway handler: the response, the calls made, the stores.
GwResult(resp, calls, docs, objs) ==
    [response |-> resp, trace |-> calls, documents |-> docs, blobs |-> objs]

\* table.put_item / table.delete_item on the table docs
PutItem(docs, item) ==
    [k \in (DOMAIN docs) \cup {item.doc_id} |-> IF k = item.doc_id THEN item ELSE docs[k]]
DeleteItem(docs, doc_id) == [k \in (DOMAIN docs) \ {doc_id} |-> docs[k]]

\* Mutant of UpdateItem: the update expression leaves out s3_key.
UpdateItem_tags_only(docs, doc_id, tags, s3_key) ==
    LET old == IF doc_id \in DOMAIN docs THEN docs[doc_id]
               ELSE [doc_id |-> doc_id, filename |-> Missing, upload_timestamp |-> Missing,
                     s3_key |-> Missing, tags |-> Missing]
    IN  PutItem(docs, [old EXCEPT !.tags = IF tags # Null THEN tags ELSE @])

\* table.update_item(Key, "SET ..."): sets the given attributes of the item,
\* creating the item when the key has none.
UpdateItem(docs, doc_id, tags, s3_key) ==
    LET old == IF doc_id \in DOMAIN docs THEN docs[doc_id]
               ELSE [doc_id |-> doc_id, filename |-> Missing, upload_timestamp |-> Missing,
                     s3_key |-> Missing, tags |-> Missing]
    IN  PutItem(docs, [old EXCEPT !.tags = IF tags # Null THEN tags ELSE @,
                                  !.s3_key = IF s3_key # Null THEN s3_key ELSE @])

\* create_document (lines 102-114)
create_document(item, env, docs, objs) ==
    LET doc == [doc_id |-> item.doc_id, filename |-> item.filename,
                upload_timestamp |-> env.now,
                s3_key |-> IF item.s3_key \in {Null, ""} THEN "" ELSE item.s3_key,
                tags |-> IF item.tags \in {Null, "{}"} THEN "{}" ELSE item.tags]
        put == Call("put_item", item.doc_id, doc, env.raises, env.msg, <<>>)
    IN  IF put.raised THEN GwResult(InternalServerError, <<put>>, docs, objs)
        ELSE GwResult([status |-> 201, body |-> [status |-> "ok", doc_id |-> item.doc_id]],
                      <<put>>, PutItem(docs, doc), objs)

NotFoundResponse == [status |-> 404, body |-> [detail |-> "Document not found"]]

\* get_document (lines 117-124)
get_document(doc_id, env, docs, objs) ==
    LET get == Call("get_item", doc_id, doc_id, env.raises, env.msg,
                    IF doc_id \in DOMAIN docs THEN <<docs[doc_id]>> ELSE <<>>)
    IN  IF get.raised THEN GwResult(InternalServerError, <<get>>, docs, objs)
        ELSE IF get.ret = <<>> THEN GwResult(NotFoundResponse, <<get>>, docs, objs)
        ELSE GwResult([status |-> 200, body |-> get.ret[1]], <<get>>, docs, objs)

\* update_document (lines 127-148)
update_document(doc_id, body, env, docs, objs) ==
    LET update == Call("update_item", doc_id, body, env.raises, env.msg, <<>>)
    IN  IF body.tags = Null /\ body.s3_key = Null
        THEN GwResult([status |-> 400, body |-> [detail |-> "No updatable fields provided"]],
                      <<>>, docs, objs)
        ELSE IF update.raised THEN GwResult(InternalServerError, <<update>>, docs, objs)
        ELSE GwResult([status |-> 200, body |-> [status |-> "ok", doc_id |-> doc_id]],
                      <<update>>, UpdateItem(docs, doc_id, body.tags, body.s3_key), objs)

\* Mutant of delete_document: a failing blob delete is not caught.
delete_document_blob_failure_raises(doc_id, delete_s3, env, docs, objs) ==
    LET get == Call("get_item", doc_id, doc_id, env.raises, env.msg,
                    IF doc_id \in DOMAIN docs THEN <<docs[doc_id]>> ELSE <<>>)
        key == IF get.ret = <<>> THEN Missing ELSE get.ret[1].s3_key
        purge == delete_s3 /\ key \notin {Missing, ""}
        delobj == Call("delete_object", doc_id, key, env.raises, env.msg, <<>>)
        objs1 == IF purge /\ ~delobj.raised THEN objs \ {key} ELSE objs
        delitem == Call("delete_item", doc_id, doc_id, env.raises, env.msg, <<>>)
        calls == IF purge THEN <<get, delobj, delitem>> ELSE <<get, delitem>>
    IN  IF get.raised THEN GwResult(InternalServerError, <<get>>, docs, objs)
        ELSE IF get.ret = <<>> THEN GwResult(NotFoundResponse, <<get>>, docs, objs)
        ELSE IF purge /\ delobj.raised
        THEN GwResult(InternalServerError, <<get, delobj>>, docs, objs)
        ELSE IF delitem.raised THEN GwResult(InternalServerError, calls, docs, objs1)
        ELSE GwResult([status |-> 200, body |-> [status |-> "deleted", doc_id |-> doc_id]],
                      calls, DeleteItem(docs, doc_id), objs1)

\* delete_document (lines 151-167)
delete_document(doc_id, delete_s3, env, docs, objs) ==
    LET get == Call("get_item", doc_id, doc_id, env.raises, env.msg,
                    IF doc_id \in DOMAIN docs THEN <<docs[doc_id]>> ELSE <<>>)
        key == IF get.ret = <<>> THEN Missing ELSE get.ret[1].s3_key
        purge == delete_s3 /\ key \notin {Missing, ""}
        delobj == Call("delete_object", doc_id, key, env.raises, env.msg, <<>>)
        objs1 == IF purge /\ ~delobj.raised THEN objs \ {key} ELSE objs
        delitem == Call("delete_item", doc_id, doc_id, env.raises, env.msg, <<>>)
        calls == IF purge THEN <<get, delobj, delitem>> ELSE <<get, delitem>>
    IN  IF get.raised THEN GwResult(InternalServerError, <<get>>, docs, objs)
        ELSE IF get.ret = <<>> THEN GwResult(NotFoundResponse, <<get>>, docs, objs)
        ELSE IF delitem.raised THEN GwResult(InternalServerError, calls, docs, objs1)
        ELSE GwResult([status |-> 200, body |-> [status |-> "deleted", doc_id |-> doc_id]],
                      calls, DeleteItem(docs, doc_id), objs1)

\* get_service_headers (lines 24-28)
get_service_headers(token) ==
    IF token # "" THEN [Authorization |-> "Bearer " \o token] ELSE [Authorization |-> Missing]

\* What requests.post to the RAG Orchestrator comes to: an answer with a
\* success status and a JSON body, an answer with an error status, a
\* transport failure, or a success status with a body that is not JSON.
Downstreams ==
    {[kind |-> "ok", status |-> 200, text |-> "{rag result}"],
     [kind |-> "not_json", status |-> 200, text |-> "Expecting value"]}
    \cup {[kind |-> "http_error", status |-> st, text |-> "{rag error}"] :
             st \in {401, 404, 422, 500, 503}}
    \cup {[kind |-> "transport", status |-> 0, text |-> m] :
             m \in {"Read timed out", "Connection refused"}}

\* requests.post(url, json, headers, timeout), as recorded in the trace.
Post(url, json, token, timeout, down) ==
    Call("post", "", [url |-> url, json |-> json, headers |-> get_service_headers(token),
                      timeout |-> timeout],
         IF down.kind = "transport" THEN "post" ELSE "none", down.text, down)

\* Mutant of forward: a downstream error status is caught by the general
\* handler and answered 500.
forward_error_as_500(post, ok, docs, objs) ==
    LET down == post.ret
    IN  IF post.raised
        THEN GwResult([status |-> 500, body |-> [detail |-> post.error]], <<post>>, docs, objs)
        ELSE IF down.kind = "http_error"
        THEN GwResult([status |-> 500,
                       body |-> [detail |-> "RAG module error: " \o down.text]],
                      <<post>>, docs, objs)
        ELSE IF down.kind = "not_json"
        THEN GwResult([status |-> 500, body |-> [detail |-> down.text]], <<post>>, docs, objs)
        ELSE GwResult(ok, <<post>>, docs, objs)

\* The try/except around the forward (lines 174-186 and 192-203): ok is the
\* response for a downstream answer that passes raise_for_status.
forward(post, ok, docs, objs) ==
    LET down == post.ret
    IN  IF post.raised
        THEN GwResult([status |-> 500, body |-> [detail |-> post.error]], <<post>>, docs, objs)
        ELSE IF down.kind = "http_error"
        THEN GwResult([status |-> down.status,
                       body |-> [detail |-> "RAG module error: " \o down.text]],
                      <<post>>, docs, objs)
        ELSE IF down.kind = "not_json"
        THEN GwResult([status |-> 500, body |-> [detail |-> down.text]], <<post>>, docs, objs)
        ELSE GwResult(ok, <<post>>, docs, objs)

\* index_document (lines 170-186)
index_document(doc_id, down, token, docs, objs) ==
    LET post == Post("/rag/index", [document_ids |-> <<doc_id>>], token, 30, down)
    IN  forward(post, [status |-> 200, body |-> [status |-> "ok", rag_response |-> down.text]],
                docs, objs)

\* aws_query (lines 189-203)
aws_query(body, down, token, docs, objs) ==
    LET post == Post("/rag/query", body, token, 60, down)
    IN  forward(post, [status |-> 200, body |-> down.text], docs, objs)

\* The store calls of one Gateway request: the time, and the call that
\* raises ("none": no call raises).
GwEnvs(fns) ==
    {[now |-> t, raises |-> f, msg |-> IF f = "none" THEN "" ELSE "store unavailable"] :
        t \in Timestamps, f \in fns \cup {"none"}}

\* One request to the Gateway on route, answered with one of results unless
\* the route's auth dependency refuses the caller.
GatewayRequest(route, req, results) ==
    /\ phase = "idle"
    /\ phase' = "done"
    /\ op' = route
    /\ request' = req
    /\ \E h \in GatewayAuthorizations :
          /\ authorization' = h
          /\ IF route \in Protected /\ gateway_verify_token(h) # 200
             THEN /\ response' = Unauthorized
                  /\ trace' = <<>>
                  /\ UNCHANGED gatewayState
             ELSE \E r \in results :
                     /\ response' = r.response
                     /\ trace' = r.trace
                     /\ documents' = r.documents
                     /\ blobs' = r.blobs
    /\ UNCHANGED <<index, indexBefore, metricsCfg, serviceToken, sinkState, pdfState>>

\* The DocumentItem bodies sent to POST /aws/documents; document d2 is never
\* created.  A body without filename fails validation.
CreateItems ==
    {[doc_id |-> "d1", filename |-> f, tags |-> t, s3_key |-> k] :
        f \in Filenames \cup {Null}, t \in CreateTags, k \in CreateKeys}

CreateDocument ==
    \E item \in CreateItems :
        GatewayRequest("create_document", item,
            IF item.filename = Null
            THEN {GwResult(Rejected, <<>>, documents, blobs)}
            ELSE {create_document(item, env, documents, blobs) : env \in GwEnvs({"put_item"})})

GetDocument ==
    \E doc_id \in GwDocIds :
        GatewayRequest("get_document", [doc_id |-> doc_id],
            {get_document(doc_id, env, documents, blobs) : env \in GwEnvs({"get_item"})})

UpdateDocument ==
    \E doc_id \in GwDocIds, t \in UpdateTags, k \in UpdateKeys :
        GatewayRequest("update_document", [doc_id |-> doc_id, tags |-> t, s3_key |-> k],
            {update_document(doc_id, [tags |-> t, s3_key |-> k], env, documents, blobs) :
                env \in GwEnvs({"update_item"})})

DeleteDocument ==
    \E doc_id \in GwDocIds, delete_s3 \in BOOLEAN :
        GatewayRequest("delete_document", [doc_id |-> doc_id, delete_s3 |-> delete_s3],
            {delete_document(doc_id, delete_s3, env, documents, blobs) :
                env \in GwEnvs({"get_item", "delete_object", "delete_item"})})

IndexDocument ==
    \E doc_id \in GwDocIds :
        GatewayRequest("index_document", [doc_id |-> doc_id],
            {index_document(doc_id, down, serviceToken, documents, blobs) :
                down \in Downstreams})

\* The bodies sent to POST /aws/query: any JSON object is forwarded as it is.
QueryBodies == {[document_ids |-> <<"d1", "d2">>, question |-> "What is the answer?"]}

AwsQuery ==
    \E body \in QueryBodies :
        GatewayRequest("aws_query", body,
            {aws_query(body, down, serviceToken, documents, blobs) : down \in Downstreams})

----------------------------------------------------------------------------
(* The Metrics Sink: metrics_lambda/handler.py and metrics_lambda/local_stub.py *)

\* Python's None, where it has to differ from the JSON text null.
PyNone == "<None>"

\* A value after parsing, tagged with its Python type.  The value of a dict
\* is the record of its keys; every other value keeps its JSON text.
Dict(f) == [kind |-> "dict", val |-> f]
Other(kind, text) == [kind |-> kind, val |-> [text |-> text]]

\* The records (JSON objects) sent to the sink.  Numbers that the sink
\* converts with Decimal(str(x)) are kept as the text str(x) gives.
FullRecord(run_id, status) ==
    [run_id |-> run_id, agent_name |-> "RAGQueryAgent",
     tokens_consumed |-> IF status = "completed" THEN 150 ELSE 0,
     tokens_generated |-> IF status = "completed" THEN 75 ELSE 0,
     response_time_ms |-> "250.5",
     confidence_score |-> IF status = "completed" THEN "0.92" ELSE "0.0",
     status |-> status]
SinkRecords ==
    {FullRecord("r1", "completed"), FullRecord("r1", "failed"),
     [run_id |-> "r2", agent_name |-> "TestAgent"],
     [agent_name |-> "TestAgent"],
     [run_id |-> "", agent_name |-> "TestAgent"],
     [run_id |-> PyNone, agent_name |-> "TestAgent"],
     [run_id |-> "r2", agent_name |-> "TestAgent", response_time_ms |-> "fast"]}

\* The JSON texts sent as a body, with what json.loads makes of them
\* (raised: the text is not JSON).
JsonTexts ==
    <<[text |-> "{\"run_id\": \"r1\", \"agent_name\": \"RAGQueryAgent\", \"tokens_consumed\": 150, \"tokens_generated\": 75, \"response_time_ms\": 250.5, \"confidence_score\": 0.92, \"status\": \"completed\"}",
       raised |-> FALSE, value |-> Dict(FullRecord("r1", "completed"))],
      [text |-> "{\"run_id\": \"r2\", \"agent_name\": \"TestAgent\"}",
       raised |-> FALSE, value |-> Dict([run_id |-> "r2", agent_name |-> "TestAgent"])],
      [text |-> "{\"agent_name\": \"TestAgent\"}",
       raised |-> FALSE, value |-> Dict([agent_name |-> "TestAgent"])],
      [text |-> "null", raised |-> FALSE, value |-> Other("NoneType", "null")],
      [text |-> "[1, 2]", raised |-> FALSE, value |-> Other("list", "[1, 2]")],
      [text |-> "5", raised |-> FALSE, value |-> Other("int", "5")],
      [text |-> "\"r1\"", raised |-> FALSE, value |-> Other("str", "r1")],
      [text |-> "{invalid json", raised |-> TRUE, value |-> Other("NoneType", "null")],
      [text |-> "", raised |-> TRUE, value |-> Other("NoneType", "null")]>>

BodyTexts == {JsonTexts[i].text : i \in 1..Len(JsonTexts)}

\* json.loads(text)
json_loads(text) ==
    LET e == JsonTexts[CHOOSE i \in 1..Len(JsonTexts) : JsonTexts[i].text = text]
    IN  [raised |-> e.raised, value |-> e.value]

\* dict.get(key, default)
Get(f, key, default) == IF key \in DOMAIN f THEN f[key] ELSE default

\* Decimal(str(x)): raises InvalidOperation unless str(x) is a number
DecimalTexts == {"250.5", "0.92", "0.0", "12", "-0.2"}
Decimal(x) == [raised |-> x \notin DecimalTexts, value |-> x]

\* datetime.now(timezone.utc).isoformat(): a reading of the wall clock, which
\* two calls can read alike
SinkTimestamps == {"2026-01-01T00:00:00.000001+00:00", "2026-01-01T00:00:00.000002+00:00"}

\* The environment of one call: the clock reading and the call that raises.
SinkEnvs ==
    {[now |-> t, raises |-> f, msg |-> IF f = "none" THEN "" ELSE "ProvisionedThroughputExceededException"] :
        t \in SinkTimestamps, f \in {"none", "put_item"}}

\* The outcome of a call: the answer, the calls made and the table.
SinkResult(resp, calls, table) == [response |-> resp, trace |-> calls, agentMetrics |-> table]

\* table.put_item(Item=item) on AgentMetrics, whose key is (run_id, timestamp)
PutMetricsItem(table, item) ==
    LET key == <<item.run_id, item.timestamp>>
    IN  [k \in (DOMAIN table) \cup {key} |-> IF k = key THEN item ELSE table[k]]

\* The item both entry points build from a payload (handler.py lines 41-51,
\* local_stub.py lines 43-53): raised when a Decimal conversion raises.
MetricsItem(payload, run_id, now) ==
    LET rt == Decimal(Get(payload, "response_time_ms", "0.0"))
        cs == Decimal(Get(payload, "confidence_score", "0.0"))
    IN  [raised |-> rt.raised \/ cs.raised,
         item |-> [run_id |-> run_id,
                   timestamp |-> now,
                   agent_name |-> Get(payload, "agent_name", PyNone),
                   tokens_consumed |-> Get(payload, "tokens_consumed", 0),
                   tokens_generated |-> Get(payload, "tokens_generated", 0),
                   response_time_ms |-> rt.value,
                   confidence_score |-> cs.value,
                   status |-> Get(payload, "status", "unknown")]]

\* The answers of handler.store_agent_metrics
LambdaResponse(statusCode, body) == [status |-> statusCode, body |-> body]
LambdaInternalError == LambdaResponse(500, [error |-> "Internal server error"])

\* Mutant of store_agent_metrics: a failed write is answered as if the
\* record had been stored.
store_agent_metrics_hides_failure(event, env, table) ==
    LET has_body == event.kind = "dict" /\ "body" \in DOMAIN event.val
        \* line 28
        sent == IF ~has_body THEN event
                ELSE IF event.val.body = PyNone THEN Other("NoneType", "null")
                ELSE Other("str", event.val.body)
        \* lines 29-34
        parsed == json_loads(sent.val.text)
        payload == IF sent.kind = "str" THEN parsed.value ELSE sent
        \* line 36
        run_id == Get(payload.val, "run_id", PyNone)
        built == MetricsItem(payload.val, run_id, env.now)
        put == Call("put_item", run_id, built.item, env.raises, env.msg, <<>>)
    IN  IF sent.kind = "str" /\ parsed.raised
        THEN SinkResult(LambdaResponse(400, [error |-> "Invalid JSON payload"]), <<>>, table)
        \* payload.get on a value that is no dict raises AttributeError (line 58)
        ELSE IF payload.kind # "dict" THEN SinkResult(LambdaInternalError, <<>>, table)
        ELSE IF run_id \in {PyNone, ""}
        THEN SinkResult(LambdaResponse(400, [error |-> "Missing run_id"]), <<>>, table)
        ELSE IF built.raised THEN SinkResult(LambdaInternalError, <<>>, table)
        ELSE IF put.raised
        THEN SinkResult(LambdaResponse(200, [status |-> "ok", run_id |-> run_id]), <<put>>, table)
        ELSE SinkResult(LambdaResponse(200, [status |-> "ok", run_id |-> run_id]), <<put>>,
                        PutMetricsItem(table, built.item))

\* Mutant of store_agent_metrics: the run_id is not checked.
store_agent_metrics_no_run_id_check(event, env, table) ==
    LET has_body == event.kind = "dict" /\ "body" \in DOMAIN event.val
        \* line 28
        sent == IF ~has_body THEN event
                ELSE IF event.val.body = PyNone THEN Other("NoneType", "null")
                ELSE Other("str", event.val.body)
        \* lines 29-34
        parsed == json_loads(sent.val.text)
        payload == IF sent.kind = "str" THEN parsed.value ELSE sent
        \* line 36
        run_id == Get(payload.val, "run_id", PyNone)
        built == MetricsItem(payload.val, run_id, env.now)
        put == Call("put_item", run_id, built.item, env.raises, env.msg, <<>>)
    IN  IF sent.kind = "str" /\ parsed.raised
        THEN SinkResult(LambdaResponse(400, [error |-> "Invalid JSON payload"]), <<>>, table)
        \* payload.get on a value that is no dict raises AttributeError (line 58)
        ELSE IF payload.kind # "dict" THEN SinkResult(LambdaInternalError, <<>>, table)
        ELSE IF built.raised THEN SinkResult(LambdaInternalError, <<>>, table)
        ELSE IF put.raised THEN SinkResult(LambdaInternalError, <<put>>, table)
        ELSE SinkResult(LambdaResponse(200, [status |-> "ok", run_id |-> run_id]), <<put>>,
                        PutMetricsItem(table, built.item))

\* handler.store_agent_metrics (lines 23-60).  The event is the record
\* itself, or a dict whose "body" is the record's JSON text.
store_agent_metrics(event, env, table) ==
    LET has_body == event.kind = "dict" /\ "body" \in DOMAIN event.val
        \* line 28
        sent == IF ~has_body THEN event
                ELSE IF event.val.body = PyNone THEN Other("NoneType", "null")
                ELSE Other("str", event.val.body)
        \* lines 29-34
        parsed == json_loads(sent.val.text)
        payload == IF sent.kind = "str" THEN parsed.value ELSE sent
        \* line 36
        run_id == Get(payload.val, "run_id", PyNone)
        built == MetricsItem(payload.val, run_id, env.now)
        put == Call("put_item", run_id, built.item, env.raises, env.msg, <<>>)
    IN  IF sent.kind = "str" /\ parsed.raised
        THEN SinkResult(LambdaResponse(400, [error |-> "Invalid JSON payload"]), <<>>, table)
        \* payload.get on a value that is no dict raises AttributeError (line 58)
        ELSE IF payload.kind # "dict" THEN SinkResult(LambdaInternalError, <<>>, table)
        ELSE IF run_id \in {PyNone, ""}
        THEN SinkResult(LambdaResponse(400, [error |-> "Missing run_id"]), <<>>, table)
        ELSE IF built.raised THEN SinkResult(LambdaInternalError, <<>>, table)
        ELSE IF put.raised THEN SinkResult(LambdaInternalError, <<put>>, table)
        ELSE SinkResult(LambdaResponse(200, [status |-> "ok", run_id |-> run_id]), <<put>>,
                        PutMetricsItem(table, built.item))

\* The answers of local_stub.receive_metrics
StubError(status, detail) == [status |-> status, body |-> [detail |-> detail]]

\* local_stub.receive_metrics (lines 20-62): POST /metrics of the HTTP stub
receive_metrics(req, env, table) ==
    LET parsed == json_loads(req.body)
        payload == parsed.value
        run_id == Get(payload.val, "run_id", PyNone)
        built == MetricsItem(payload.val, run_id, env.now)
        put == Call("put_item", run_id, built.item, env.raises, env.msg, <<>>)
    IN  IF req.content_type # "application/json"
        THEN SinkResult(StubError(400, "Content-Type must be application/json"), <<>>, table)
        ELSE IF parsed.raised
        THEN SinkResult(StubError(400, "Invalid JSON in request body"), <<>>, table)
        ELSE IF payload.kind # "dict"
        THEN SinkResult(StubError(500, "Internal server error"), <<>>, table)
        ELSE IF run_id \in {PyNone, ""}
        THEN SinkResult(StubError(400, "Missing run_id"), <<>>, table)
        ELSE IF built.raised THEN SinkResult(StubError(500, "Internal server error"), <<>>, table)
        ELSE IF put.raised THEN SinkResult(StubError(500, "Internal server error"), <<put>>, table)
        ELSE SinkResult([status |-> 200, body |-> [status |-> "ok", run_id |-> run_id]], <<put>>,
                        PutMetricsItem(table, built.item))

\* The events the Lambda is invoked with: a record, a dict with a body (a
\* JSON text, or None when the request had no body), or a JSON value that
\* is no object.
LambdaEvents ==
    {Dict(r) : r \in SinkRecords}
    \cup {Dict([body |-> t]) : t \in BodyTexts \cup {PyNone}}
    \cup {Other("list", "[1, 2]"), Other("NoneType", "null")}

\* The requests sent to the stub.
StubRequests ==
    {[content_type |-> c, body |-> t] : c \in {"application/json", "text/plain"}, t \in BodyTexts}

\* One call of the sink, answered with one of results.
SinkRequest(entry, req, results) ==
    /\ phase = "idle"
    /\ phase' = "done"
    /\ op' = entry
    /\ request' = req
    /\ authorization' = ""
    /\ \E r \in results :
          /\ response' = r.response
          /\ trace' = r.trace
          /\ agentMetrics' = r.agentMetrics
    /\ UNCHANGED <<index, indexBefore, metricsCfg, serviceToken, gatewayState, pdfState>>

StoreAgentMetrics ==
    \E event \in LambdaEvents :
        SinkRequest("store_agent_metrics", event,
                    {store_agent_metrics(event, env, agentMetrics) : env \in SinkEnvs})

ReceiveMetrics ==
    \E req \in StubRequests :
        SinkRequest("receive_metrics", req,
                    {receive_metrics(req, env, agentMetrics) : env \in SinkEnvs})

----------------------------------------------------------------------------
(* The Document Service: pdf_service/app *)

\* Bounds of the Document Service model: the files of one upload, and the
\* ids uuid4 returns in one behaviour.
MaxFiles == 2
MaxUuids == 3

\* A file name, split before its last four characters, so that
\* str.endswith(".pdf") is a test of the suffix.
FileName(stem, suffix) == [stem |-> stem, suffix |-> suffix]
NameOf(filename) == filename.stem \o filename.suffix
endswith_pdf(filename) == filename.suffix = ".pdf"

\* The files sent: a PDF with text, a text file, a PDF named in upper
\* case, and a file named .pdf whose content is no PDF.
UploadFiles ==
    {[filename |-> FileName("a", ".pdf"), content |-> "%PDF-1.4 (a)"],
     [filename |-> FileName("b", ".txt"), content |-> "This is not a PDF file."],
     [filename |-> FileName("c", ".PDF"), content |-> "%PDF-1.4 (c)"],
     [filename |-> FileName("d", ".pdf"), content |-> "This is not a PDF file."]}

\* fitz.open(stream=content, filetype="pdf") and the text of its pages:
\* raises when the content is no PDF document.
extract_text(content) ==
    IF content = "This is not a PDF file."
    THEN [raised |-> TRUE, text |-> ""]
    ELSE [raised |-> FALSE, text |-> "text of " \o content]

\* str(uuid.uuid4()): the n-th id returned, different from every earlier one
Uuid(n) == "uuid-" \o ToString(n)

\* auth.verify_token behind HTTPBasic(): 401 without credentials, 401 for a
\* user other than admin/password
PdfAuthorizations == {"", "Basic admin:password", "Basic admin:wrong"}
authenticate_user(header) == header = "Basic admin:password"
pdf_verify_token(header) ==
    IF header = "" THEN [status |-> 401, body |-> [detail |-> "Not authenticated"]]
    ELSE IF ~authenticate_user(header)
    THEN [status |-> 401, body |-> [detail |-> "Invalid authentication credentials"]]
    ELSE [status |-> 200, body |-> [detail |-> "admin"]]

\* The environment of one upload: the time of the database server, and the
\* call that raises ("none": no call raises), for the file at position at.
PdfEnvs(fns) ==
    {[now |-> t, raises |-> f, at |-> i,
      msg |-> IF f = "none" THEN "" ELSE "service unavailable"] :
        t \in Timestamps, f \in fns \cup {"none"}, i \in 1..MaxFiles}

\* The progress of an upload: the answer once it is decided (status 0
\* before), the calls made, the stores, and the rows to return.
PdfResult(resp, calls, rows, objs, n, uploaded) ==
    [response |-> resp, trace |-> calls, pdfDocuments |-> rows, pdfBucket |-> objs,
     uuids |-> n, uploaded_docs |-> uploaded]

\* Whether the mapped class takes the keyword file_location.  The class
\* (models.py lines 16-23) declares no such column, and its constructor is
\* the one of database.Base: SQLAlchemy's declarative constructor raises
\* TypeError for a keyword that is no attribute of the class (FALSE); a
\* base that maps the storage location takes it (TRUE).
FileLocationColumns == BOOLEAN

\* models.Document(doc_id, filename, extracted_text, file_location) in a
\* build whose class accepts, or does not accept, the keyword file_location.
Document(accepts, doc_id, filename, extracted_text, file_location, now) ==
    [raised |-> ~accepts,
     error |-> IF accepts THEN ""
               ELSE "'file_location' is an invalid keyword argument for Document",
     row |-> [doc_id |-> doc_id, filename |-> filename, upload_timestamp |-> now,
              extracted_text |-> extracted_text, file_location |-> file_location]]

\* crud.create_document (lines 5-10), as recorded in the trace: the row is
\* in the table once db.commit() has returned.
crud_create_document(accepts, doc_id, filename, extracted_text, file_location, env, i) ==
    LET db_doc == Document(accepts, doc_id, filename, extracted_text, file_location, env.now)
        commits == env.raises = "create_document" /\ env.at = i
    IN  [fn |-> "create_document", doc |-> doc_id, arg |-> db_doc.row,
         raised |-> db_doc.raised \/ commits,
         error |-> IF db_doc.raised THEN db_doc.error ELSE IF commits THEN env.msg ELSE "",
         ret |-> <<>>]

\* The answer the loop has not decided yet.
Undecided == [status |-> 0, body |-> [detail |-> ""]]

\* Mutant of upload_one: a failed blob write is logged and the metadata is
\* stored all the same.
upload_one_ignores_blob_failure(acc, file, i, env, accepts) ==
    LET name == NameOf(file.filename)
        At(fn) == IF env.raises = fn /\ env.at = i THEN fn ELSE "none"
        parsed == extract_text(file.content)
        open == Call("fitz.open", name, file.content,
                     IF parsed.raised THEN "fitz.open" ELSE At("fitz.open"),
                     IF parsed.raised THEN "Failed to open stream" ELSE env.msg, parsed.text)
        doc_id == Uuid(acc.uuids + 1)
        uuid == Call("uuid4", doc_id, <<>>, "none", "", doc_id)
        key == doc_id \o "/" \o name
        put == Call("put_object", doc_id, key, At("put_object"), env.msg, <<>>)
        objs == IF put.raised THEN acc.pdfBucket ELSE acc.pdfBucket \cup {key}
        file_location == "s3:" \o key
        create == crud_create_document(accepts, doc_id, name, parsed.text, file_location, env, i)
        rows == [k \in (DOMAIN acc.pdfDocuments) \cup {doc_id} |->
                    IF k = doc_id THEN create.arg ELSE acc.pdfDocuments[k]]
    IN  IF ~endswith_pdf(file.filename)
        THEN PdfResult([status |-> 400, body |-> [detail |-> name \o " is not a PDF"]],
                       acc.trace, acc.pdfDocuments, acc.pdfBucket, acc.uuids, acc.uploaded_docs)
        ELSE IF open.raised
        THEN PdfResult(InternalServerError, Append(acc.trace, open),
                       acc.pdfDocuments, acc.pdfBucket, acc.uuids, acc.uploaded_docs)
        ELSE IF create.raised
        THEN PdfResult(InternalServerError, acc.trace \o <<open, uuid, put, create>>,
                       acc.pdfDocuments, objs, acc.uuids + 1, acc.uploaded_docs)
        ELSE PdfResult(Undecided, acc.trace \o <<open, uuid, put, create>>,
                       rows, objs, acc.uuids + 1, Append(acc.uploaded_docs, create.arg))

\* One turn of the loop of upload_pdfs (lines 46-73), for the file at
\* position i.
upload_one(acc, file, i, env, accepts) ==
    LET name == NameOf(file.filename)
        At(fn) == IF env.raises = fn /\ env.at = i THEN fn ELSE "none"
        parsed == extract_text(file.content)
        open == Call("fitz.open", name, file.content,
                     IF parsed.raised THEN "fitz.open" ELSE At("fitz.open"),
                     IF parsed.raised THEN "Failed to open stream" ELSE env.msg, parsed.text)
        doc_id == Uuid(acc.uuids + 1)
        uuid == Call("uuid4", doc_id, <<>>, "none", "", doc_id)
        key == doc_id \o "/" \o name
        put == Call("put_object", doc_id, key, At("put_object"), env.msg, <<>>)
        objs == acc.pdfBucket \cup {key}
        file_location == "s3:" \o key
        create == crud_create_document(accepts, doc_id, name, parsed.text, file_location, env, i)
        rows == [k \in (DOMAIN acc.pdfDocuments) \cup {doc_id} |->
                    IF k = doc_id THEN create.arg ELSE acc.pdfDocuments[k]]
    IN  IF ~endswith_pdf(file.filename)
        THEN PdfResult([status |-> 400, body |-> [detail |-> name \o " is not a PDF"]],
                       acc.trace, acc.pdfDocuments, acc.pdfBucket, acc.uuids, acc.uploaded_docs)
        ELSE IF open.raised
        THEN PdfResult(InternalServerError, Append(acc.trace, open),
                       acc.pdfDocuments, acc.pdfBucket, acc.uuids, acc.uploaded_docs)
        ELSE IF put.raised
        THEN PdfResult([status |-> 500,
                        body |-> [detail |-> "Failed to upload to S3: " \o put.error]],
                       acc.trace \o <<open, uuid, put>>,
                       acc.pdfDocuments, acc.pdfBucket, acc.uuids + 1, acc.uploaded_docs)
        ELSE IF create.raised
        THEN PdfResult(InternalServerError, acc.trace \o <<open, uuid, put, create>>,
                       acc.pdfDocuments, objs, acc.uuids + 1, acc.uploaded_docs)
        ELSE PdfResult(Undecided, acc.trace \o <<open, uuid, put, create>>,
                       rows, objs, acc.uuids + 1, Append(acc.uploaded_docs, create.arg))

\* The loop of upload_pdfs (lines 46-75): the files in order, until one is
\* refused or fails; the rows stored are the answer.
RECURSIVE upload_loop(_, _, _, _, _)
upload_loop(acc, files, i, env, accepts) ==
    IF i > Len(files)
    THEN [acc EXCEPT !.response = [status |-> 200, body |-> [documents |-> acc.uploaded_docs]]]
    ELSE LET r == upload_one(acc, files[i], i, env, accepts)
         IN  IF r.response.status # 0 THEN r
             ELSE upload_loop(r, files, i + 1, env, accepts)

\* upload_pdfs (lines 42-75)
upload_pdfs(files, env, accepts, rows, objs, n) ==
    upload_loop(PdfResult(Undecided, <<>>, rows, objs, n, <<>>), files, 1, env, accepts)

\* read_document (lines 78-83)
read_document(doc_id, rows, objs, n) ==
    LET get == Call("get_document", doc_id, doc_id, "none", "",
                    IF doc_id \in DOMAIN rows THEN <<rows[doc_id]>> ELSE <<>>)
    IN  IF get.ret = <<>> THEN PdfResult(NotFoundResponse, <<get>>, rows, objs, n, <<>>)
        ELSE PdfResult([status |-> 200, body |-> get.ret[1]], <<get>>, rows, objs, n, <<>>)

\* read_documents (lines 86-90): limit rows after the first (page - 1) *
\* limit, in the order the database returns them.
read_documents(page, limit, rows, objs, n) ==
    LET skip == (page - 1) * limit
        count == IF Cardinality(DOMAIN rows) <= skip THEN 0
                 ELSE Min2(limit, Cardinality(DOMAIN rows) - skip)
    IN  {PdfResult([status |-> 200, body |-> [documents |-> {rows[d] : d \in ids}]],
                   <<Call("get_documents", "", [skip |-> skip, limit |-> limit], "none", "", ids)>>,
                   rows, objs, n, <<>>) :
            ids \in {s \in SUBSET (DOMAIN rows) : Cardinality(s) = count}}

\* One request to the Document Service on route, answered with one of
\* results unless the auth dependency refuses the caller.
PdfRequest(route, req, results) ==
    /\ phase = "idle"
    /\ phase' = "done"
    /\ op' = route
    /\ request' = req
    /\ \E h \in PdfAuthorizations :
          /\ authorization' = h
          /\ IF pdf_verify_token(h).status # 200
             THEN /\ response' = pdf_verify_token(h)
                  /\ trace' = <<>>
                  /\ UNCHANGED <<pdfDocuments, pdfBucket, uuids>>
             ELSE \E r \in results :
                     /\ response' = r.response
                     /\ trace' = r.trace
                     /\ pdfDocuments' = r.pdfDocuments
                     /\ pdfBucket' = r.pdfBucket
                     /\ uuids' = r.uuids
    /\ UNCHANGED <<index, indexBefore, metricsCfg, serviceToken, gatewayState, sinkState,
                   fileLocationColumn>>

\* The lists of files sent to POST /pdf/upload; a request without files
\* fails validation.
RECURSIVE FileLists(_)
FileLists(n) ==
    IF n = 0 THEN {<<>>}
    ELSE FileLists(n - 1) \cup
         {Append(l, f) : l \in {m \in FileLists(n - 1) : Len(m) = n - 1}, f \in UploadFiles}

UploadPdfs ==
    \E files \in FileLists(MaxFiles) :
        /\ uuids + Len(files) <= MaxUuids
        /\ PdfRequest("upload_pdfs", [files |-> files],
              IF files = <<>>
              THEN {PdfResult(Rejected, <<>>, pdfDocuments, pdfBucket, uuids, <<>>)}
              ELSE {upload_pdfs(files, env, fileLocationColumn, pdfDocuments, pdfBucket, uuids) :
                       env \in PdfEnvs({"fitz.open", "put_object", "create_document"})})

ReadDocument ==
    \E doc_id \in {Uuid(n) : n \in 1..2} :
        PdfRequest("read_document", [doc_id |-> doc_id],
                   {read_document(doc_id, pdfDocuments, pdfBucket, uuids)})

ReadDocuments ==
    \E page \in 0..2, limit \in 0..2 :
        PdfRequest("read_documents", [page |-> page, limit |-> limit],
                   IF page < 1 \/ limit < 1
                   THEN {PdfResult(Rejected, <<>>, pdfDocuments, pdfBucket, uuids, <<>>)}
                   ELSE read_documents(page, limit, pdfDocuments, pdfBucket, uuids))

----------------------------------------------------------------------------
(* The worker *)

NoRequest == [document_ids |-> <<>>]
NoResponse == [status |-> 0, body |-> [detail |-> ""]]

\* The response is sent; the handler's locals are gone.
Deliver ==
    /\ phase = "done"
    /\ phase' = "idle"
    /\ op' = "none"
    /\ request' = NoRequest
    /\ response' = NoResponse
    /\ trace' = <<>>
    /\ indexBefore' = index
    /\ authorization' = ""
    /\ UNCHANGED <<index, metricsCfg, serviceToken, gatewayState, sinkState, pdfState>>

Init ==
    /\ index = <<>>
    /\ indexBefore = <<>>
    /\ metricsCfg \in {"lambda", "url", "none"}
    /\ serviceToken = ""
    /\ documents = <<>>
    /\ blobs = {}
    /\ agentMetrics = <<>>
    /\ pdfDocuments = <<>>
    /\ pdfBucket = {}
    /\ uuids = 0
    /\ fileLocationColumn = FALSE
    /\ authorization = ""
    /\ phase = "idle"
    /\ op = "none"
    /\ request = NoRequest
    /\ response = NoResponse
    /\ trace = <<>>

Next == Index \/ Query \/ Deliver

Spec == Init /\ [][Next]_vars

\* The Gateway after startup: an empty table, and the objects the upload
\* flow put into the bucket.
GatewayInit ==
    /\ index = <<>>
    /\ indexBefore = <<>>
    /\ metricsCfg = "none"
    /\ serviceToken \in {"", "test-service-token"}
    /\ documents = <<>>
    /\ blobs = {"k1", "k2"}
    /\ agentMetrics = <<>>
    /\ pdfDocuments = <<>>
    /\ pdfBucket = {}
    /\ uuids = 0
    /\ fileLocationColumn = FALSE
    /\ authorization = ""
    /\ phase = "idle"
    /\ op = "none"
    /\ request = NoRequest
    /\ response = NoResponse
    /\ trace = <<>>

GatewayNext ==
    \/ CreateDocument
    \/ GetDocument
    \/ UpdateDocument
    \/ DeleteDocument
    \/ IndexDocument
    \/ AwsQuery
    \/ Deliver

GatewaySpec == GatewayInit /\ [][GatewayNext]_vars

\* The RAG Orchestrator deployed with a service token.
AuthInit ==
    /\ index = <<>>
    /\ indexBefore = <<>>
    /\ metricsCfg = "lambda"
    /\ serviceToken = "test-service-token"
    /\ documents = <<>>
    /\ blobs = {}
    /\ agentMetrics = <<>>
    /\ pdfDocuments = <<>>
    /\ pdfBucket = {}
    /\ uuids = 0
    /\ fileLocationColumn = FALSE
    /\ authorization = ""
    /\ phase = "idle"
    /\ op = "none"
    /\ request = NoRequest
    /\ response = NoResponse
    /\ trace = <<>>

AuthSpec == AuthInit /\ [][Next]_vars

\* The Metrics Sink with an empty table.
MetricsInit ==
    /\ index = <<>>
    /\ indexBefore = <<>>
    /\ metricsCfg = "none"
    /\ serviceToken = ""
    /\ documents = <<>>
    /\ blobs = {}
    /\ agentMetrics = <<>>
    /\ pdfDocuments = <<>>
    /\ pdfBucket = {}
    /\ uuids = 0
    /\ fileLocationColumn = FALSE
    /\ authorization = ""
    /\ phase = "idle"
    /\ op = "none"
    /\ request = NoRequest
    /\ response = NoResponse
    /\ trace = <<>>

MetricsNext == StoreAgentMetrics \/ ReceiveMetrics \/ Deliver

MetricsSpec == MetricsInit /\ [][MetricsNext]_vars

\* The Document Service after startup: an empty table and an empty bucket,
\* in a build whose Document class takes file_location or in one whose
\* class does not.
PdfInit ==
    /\ index = <<>>
    /\ indexBefore = <<>>
    /\ metricsCfg = "none"
    /\ serviceToken = ""
    /\ documents = <<>>
    /\ blobs = {}
    /\ agentMetrics = <<>>
    /\ pdfDocuments = <<>>
    /\ pdfBucket = {}
    /\ uuids = 0
    /\ fileLocationColumn \in FileLocationColumns
    /\ authorization = ""
    /\ phase = "idle"
    /\ op = "none"
    /\ request = NoRequest
    /\ response = NoResponse
    /\ trace = <<>>

PdfNext == UploadPdfs \/ ReadDocument \/ ReadDocuments \/ Deliver

PdfSpec == PdfInit /\ [][PdfNext]_vars

----------------------------------------------------------------------------
(* Properties *)

IndexDone == phase = "done" /\ op = "index"
QueryDone == phase = "done" /\ op = "query"

\* The positions of the calls to fn in the trace, and of those made for doc.
CallsTo(fn) == {i \in 1..Len(trace) : trace[i].fn = fn}
CallsFor(fn, doc) == {i \in CallsTo(fn) : trace[i].doc = doc}

\* The request names 1 to max ids, all different, none blank.
WellFormedIds(ids, max) ==
    /\ Len(ids) \in 1..max
    /\ \A i, j \in 1..Len(ids) : ids[i] = ids[j] => i = j
    /\ \A i \in 1..Len(ids) : ids[i] \notin BlankIds

\* The handler ran for a well-formed index request.
IndexHandled == IndexDone /\ WellFormedIds(request.document_ids, 100)

\* C1: for every valid index request (1 to 100 unique, non-blank ids) the
\* answer is 200 with a results list that has exactly one entry per input
\* id, in the order of the input ids, whatever succeeded or failed.
C1_OneResultPerIdInOrder ==
    IndexHandled =>
        /\ response.status = 200
        /\ Len(response.body.results) = Len(request.document_ids)
        /\ \A i \in 1..Len(request.document_ids) :
               /\ response.body.results[i].doc_id = request.document_ids[i]
               /\ response.body.results[i].status \in {"success", "failure"}

\* A two-id call in which the first id failed and the second succeeded.
C1_Witness ==
    /\ IndexHandled
    /\ Len(request.document_ids) = 2
    /\ response.body.results[1].status = "failure"
    /\ response.body.results[2].status = "success"

\* The four steps of one document all ran and none raised.
StepsSucceeded(doc) ==
    \A fn \in {"get_document_text", "split_text", "embed_texts", "upsert"} :
        \E i \in CallsFor(fn, doc) : ~trace[i].raised

\* C2: a failure while processing one id never aborts the batch: every id
\* of the request is processed (its text is fetched), also after a failing
\* one, and an id whose own steps succeed is reported as success and has
\* the vectors of its upsert in the Vector Index.
C2_FailureDoesNotAbortBatch ==
    IndexHandled =>
        \A i \in 1..Len(request.document_ids) :
            LET doc == request.document_ids[i]
            IN  /\ CallsFor("get_document_text", doc) # {}
                /\ StepsSucceeded(doc) =>
                      /\ response.body.results[i].status = "success"
                      /\ \A c \in CallsFor("upsert", doc) :
                            \A j \in 1..Len(trace[c].arg) :
                                /\ trace[c].arg[j].id \in DOMAIN index
                                /\ index[trace[c].arg[j].id].metadata = trace[c].arg[j].metadata
                                /\ index[trace[c].arg[j].id].values = trace[c].arg[j].values

\* The first document failed in a step after the fetch; the second was
\* indexed and its chunks are in the Vector Index.
C2_Witness ==
    /\ IndexHandled
    /\ request.document_ids = <<"a", "a_1">>
    /\ \E i \in CallsFor("embed_texts", "a") \cup CallsFor("upsert", "a") : trace[i].raised
    /\ response.body.results[2].status = "success"
    /\ "a_1_0" \in DOMAIN index

\* The Document Service answered the fetch of doc with 404.
Absent(doc) ==
    \E i \in CallsFor("get_document_text", doc) :
        trace[i].raised /\ trace[i].error = NotFound.msg

\* C3: indexing an id the Document Service does not have gives, for that id,
\* a failure entry whose reason is the error's message; the call still
\* answers 200, and no upsert is made for that id.
C3_AbsentDocumentIsFailureEntry ==
    IndexHandled =>
        \A i \in 1..Len(request.document_ids) :
            Absent(request.document_ids[i]) =>
                /\ response.status = 200
                /\ response.body.results[i] =
                       [doc_id |-> request.document_ids[i], status |-> "failure",
                        reason |-> NotFound.msg]
                /\ CallsFor("upsert", request.document_ids[i]) = {}

\* "b" is absent and "a" is indexed in the same call.
C3_Witness ==
    /\ IndexHandled
    /\ request.document_ids = <<"b", "a">>
    /\ Absent("b")
    /\ response.body.results[2].status = "success"

\* The handler ran for the query: the request passed validation.
QueryHandled == QueryDone /\ response.status # 422

\* C4: every query that passes validation emits exactly one metrics record,
\* with status completed or failed.
C4_ExactlyOneMetricsRecord ==
    QueryHandled =>
        /\ Cardinality(CallsTo("send_metrics")) = 1
        /\ \A i \in CallsTo("send_metrics") : trace[i].arg.status \in {"completed", "failed"}

\* The matches the Vector Index returned to this query (<<>> when it was
\* not asked or raised).
Matches ==
    IF \E i \in CallsTo("query") : ~trace[i].raised
    THEN trace[CHOOSE i \in CallsTo("query") : ~trace[i].raised].ret
    ELSE <<>>

IndexAnswered == \E i \in CallsTo("query") : ~trace[i].raised
LlmAnswered == \E i \in CallsTo("call_llm") : ~trace[i].raised

\* C5: the confidence_score a query returns is the arithmetic mean of the
\* scores of the returned matches (0.8 and 0.6 give 0.7), and 0.0 when there
\* are no matches; a query without matches whose model call answers
\* completes with 200.
C5_ConfidenceIsMeanOfScores ==
    QueryHandled =>
        /\ response.status = 200 =>
              LET c == response.body.confidence_score
              IN  /\ c.den > 0
                  /\ Matches # <<>> => c.num * Len(Matches) = SumScores(Matches) * c.den
                  /\ Matches = <<>> => c.num = 0
                  /\ (Len(Matches) = 2 /\ Matches[1].score = 80 /\ Matches[2].score = 60)
                        => c.num = 70 * c.den
        /\ (IndexAnswered /\ Matches = <<>> /\ LlmAnswered) =>
              /\ response.status = 200
              /\ response.body.confidence_score.num = 0

\* Two matches with scores 0.8 and 0.6, answered with 200.
C5_Witness ==
    /\ QueryHandled
    /\ response.status = 200
    /\ Len(Matches) = 2
    /\ Matches[1].score = 80
    /\ Matches[2].score = 60

\* The positions of the retrieval and generation calls that raised.
RaisedSteps ==
    {i \in CallsTo("embed_texts") \cup CallsTo("query") \cup CallsTo("call_llm") : trace[i].raised}

\* C6: when the question embedding, the index query or the model call
\* raises, one metrics record is emitted after it, with status failed, zero
\* token counts, confidence 0.0 and the run id generated at the start, and
\* the caller gets the fixed generic error, which carries nothing of the
\* internal error's message.
C6_FailedRunEmitsFailedRecord ==
    (QueryHandled /\ RaisedSteps # {}) =>
        LET last == trace[Len(trace)]
        IN  /\ trace[1].fn = "uuid4"
            /\ CallsTo("send_metrics") = {Len(trace)}
            /\ last.arg.status = "failed"
            /\ last.arg.tokens_consumed = 0
            /\ last.arg.tokens_generated = 0
            /\ last.arg.confidence_score.num = 0
            /\ last.arg.run_id = trace[1].ret
            /\ response.status = 500
            /\ response.body.message = "Failed to process RAG query"
            /\ \A i \in RaisedSteps :
                   /\ response.body.message # trace[i].error
                   /\ response.body.error_code # trace[i].error
                   /\ response.body.details # trace[i].error

\* The model call raised after a successful retrieval.
C6_Witness ==
    /\ QueryHandled
    /\ \E i \in CallsTo("call_llm") : trace[i].raised
    /\ Matches # <<>>
    /\ response.status = 500

\* The mean of the scores lies in [0, 1] (0.0 without matches).
MeanWithinUnit(ms) ==
    ms = <<>> \/ (SumScores(ms) >= 0 /\ SumScores(ms) <= 100 * Len(ms))

\* An emission of this query did not reach the sink.
EmissionFailed == \E i \in CallsTo("send_metrics") : ~trace[i].ret.delivered

\* C7: the outcome of a query does not depend on the metrics emission: the
\* response is decided by the retrieval and generation steps alone, so a
\* query whose steps give a 200 result returns it, and a failed query
\* returns the generic error, also when the emission fails (sink
\* unreachable, sink answering an error, no sink configured).
C7_EmissionFailureKeepsOutcome ==
    QueryHandled =>
        IF LlmAnswered /\ MeanWithinUnit(Matches)
        THEN /\ response.status = 200
             /\ response.body.answer = LlmResponse.answer
        ELSE response =
                 [status |-> 500,
                  body |-> [error_code |-> "LLM_ERROR",
                            message |-> "Failed to process RAG query", details |-> "null"]]

\* The sink raised on the emission of a query that returns 200.
C7_Witness ==
    /\ QueryHandled
    /\ response.status = 200
    /\ EmissionFailed
    /\ \E i \in CallsTo("send_metrics") : trace[i].ret.sink = "raise"

\* The request is one the validation must reject: no ids, too many ids,
\* duplicate ids, or (query) a blank or too long question.
Invalid ==
    LET ids == request.document_ids
    IN  \/ ids = <<>>
        \/ \E i, j \in 1..Len(ids) : i # j /\ ids[i] = ids[j]
        \/ op = "index" /\ Len(ids) > 100
        \/ op = "query" /\ Len(ids) > 50
        \/ op = "query" /\ Strip(request.question) = <<>>
        \/ op = "query" /\ StrLen(request.question) > 1000

\* C8: an invalid index or query request is answered 422 before any
\* processing: the handler makes no call (no fetch, embedding, index read
\* or write, model call, metrics record) and the Vector Index is unchanged.
C8_InvalidRequestRejectedWithoutEffects ==
    /\ [](phase = "done" /\ Invalid => response.status = 422 /\ trace = <<>>)
    /\ [][(phase' = "done" /\ Invalid') => index' = index]_vars

\* A query with valid ids and a question of 1001 characters was rejected
\* while the Vector Index holds records.
C8_Witness ==
    /\ QueryDone
    /\ request.document_ids = <<"a">>
    /\ StrLen(request.question) = 1001
    /\ response.status = 422
    /\ DOMAIN index # {}

\* The query names valid ids.
QueryIdsValid == QueryDone /\ WellFormedIds(request.document_ids, 50)

\* C9 as stated: with valid ids, a query is accepted exactly when the
\* trimmed question has 1 to 1000 characters.
C9_BoundOnTrimmedQuestion ==
    QueryIdsValid =>
        (response.status # 422 <=> StrLen(Strip(request.question)) \in 1..1000)

\* C9 amended: the length bound applies to the question as sent.  With valid
\* ids a query is accepted exactly when the question as sent has 1 to 1000
\* characters and is not blank; the trimmed question is what is embedded
\* and what is put in the prompt.
C9_BoundOnQuestionAsSent ==
    QueryIdsValid =>
        /\ response.status # 422 <=>
              (StrLen(request.question) \in 1..1000 /\ Strip(request.question) # <<>>)
        /\ response.status # 422 =>
              /\ \A i \in CallsTo("embed_texts") : trace[i].arg = <<Strip(request.question)>>
              /\ \A i \in CallsTo("call_llm") : trace[i].arg[4] = Strip(request.question)
              /\ CallsTo("embed_texts") # {}

\* A question with surrounding whitespace was accepted and reached the model.
C9_Witness ==
    /\ QueryIdsValid
    /\ response.status = 200
    /\ Strip(request.question) # request.question
    /\ CallsTo("call_llm") # {}

\* C10: a successfully indexed document whose text splits into n chunks gets
\* exactly one upsert call, carrying n records with ids <doc_id>_0 ..
\* <doc_id>_<n-1> in chunk order, each with the embedding of its chunk and
\* the payload {doc_id, text: chunk}.
C10_OneUpsertWithOneRecordPerChunk ==
    IndexHandled =>
        \A i \in 1..Len(request.document_ids) :
            LET doc == request.document_ids[i]
            IN  response.body.results[i].status = "success" =>
                    /\ Cardinality(CallsFor("upsert", doc)) = 1
                    /\ Cardinality(CallsFor("split_text", doc)) = 1
                    /\ \A u \in CallsFor("upsert", doc), c \in CallsFor("split_text", doc) :
                          LET vecs == trace[u].arg
                              chunks == trace[c].ret
                          IN  /\ Len(vecs) = Len(chunks)
                              /\ \A j \in 1..Len(chunks) :
                                    vecs[j] = [id |-> doc \o "_" \o ToString(j - 1),
                                               values |-> EmbeddingOf(chunks[j]),
                                               metadata |-> [doc_id |-> doc, text |-> chunks[j]]]

\* A document that splits into two chunks was indexed.
C10_Witness ==
    /\ IndexHandled
    /\ request.document_ids = <<"a">>
    /\ response.body.results[1].status = "success"
    /\ \E u \in CallsFor("upsert", "a") : Len(trace[u].arg) = 2

\* The ids of the records of document d in the Vector Index idx.
RecordIdsOf(idx, d) == {k \in DOMAIN idx : idx[k].metadata.doc_id = d}

\* The chunks the text of document d was split into in this index call.
ChunksIndexed(d) == trace[CHOOSE c \in CallsFor("split_text", d) : TRUE].ret

\* Document d was indexed successfully by the index call being answered.
Indexed(d) ==
    /\ IndexHandled
    /\ \E i \in 1..Len(request.document_ids) :
          /\ request.document_ids[i] = d
          /\ response.body.results[i].status = "success"

\* C11: re-indexing a document overwrites its records.  When the index
\* already holds at least as many records of the document as the new text
\* has chunks (as it does after an earlier indexing with the same chunk
\* count), the set of record ids of the document is the same after the call
\* as before; and when the index already holds every chunk of the text at
\* its position (the same text was indexed before), the records of the
\* document after the call equal the ones before.
C11_ReindexOverwrites ==
    IndexHandled =>
        \A i \in 1..Len(request.document_ids) :
            response.body.results[i].status = "success" =>
            LET d == request.document_ids[i]
                chunks == ChunksIndexed(d)
                n == Len(chunks)
                Held(j) ==
                    /\ (d \o "_" \o ToString(j - 1)) \in DOMAIN indexBefore
                    /\ indexBefore[d \o "_" \o ToString(j - 1)].metadata =
                           [doc_id |-> d, text |-> chunks[j]]
            IN  /\ (n >= 1 /\ Cardinality(RecordIdsOf(indexBefore, d)) >= n) =>
                       RecordIdsOf(index, d) = RecordIdsOf(indexBefore, d)
                /\ (n >= 1 /\ \A j \in 1..n : Held(j)) =>
                       /\ RecordIdsOf(index, d) = RecordIdsOf(indexBefore, d)
                       /\ \A k \in RecordIdsOf(index, d) : index[k] = indexBefore[k]

\* Document a, held with two records, was indexed again with a different
\* text of two chunks.
C11_Witness ==
    /\ Indexed("a")
    /\ Len(ChunksIndexed("a")) = 2
    /\ Cardinality(RecordIdsOf(indexBefore, "a")) = 2
    /\ indexBefore["a_0"].metadata.text # ChunksIndexed("a")[1]
    /\ index["a_0"].metadata.text = ChunksIndexed("a")[1]

\* C12: when a document that has n records in the index is indexed again
\* and its text now splits into m < n chunks, the records 0..m-1 hold the
\* new chunks, and the records m..n-1 are still in the index as they were,
\* with their old text, and are among the records a query naming the
\* document can get back.
C12_ShorterReindexLeavesTrailingRecords ==
    IndexHandled =>
        \A i \in 1..Len(request.document_ids) :
            response.body.results[i].status = "success" =>
            LET d == request.document_ids[i]
                chunks == ChunksIndexed(d)
                m == Len(chunks)
                n == Cardinality(RecordIdsOf(indexBefore, d))
                Id(j) == d \o "_" \o ToString(j)
            IN  m < n =>
                    /\ \A j \in 0..(m - 1) :
                          /\ Id(j) \in DOMAIN index
                          /\ index[Id(j)].metadata = [doc_id |-> d, text |-> chunks[j + 1]]
                          /\ index[Id(j)].values = EmbeddingOf(chunks[j + 1])
                    /\ \A j \in m..(n - 1) :
                          /\ Id(j) \in DOMAIN indexBefore
                          /\ Id(j) \in DOMAIN index
                          /\ index[Id(j)] = indexBefore[Id(j)]
                          /\ \E ms \in QueryMatches(index, <<d>>, TOP_K) :
                                \E p \in 1..Len(ms) :
                                    /\ ms[p].id = Id(j)
                                    /\ ms[p].metadata.text = indexBefore[Id(j)].metadata.text

\* Document a, held with two chunks of one text, was indexed again with a
\* one-chunk text: record a_1 still has the old text.
C12_Witness ==
    /\ Indexed("a")
    /\ Len(ChunksIndexed("a")) = 1
    /\ Cardinality(RecordIdsOf(indexBefore, "a")) = 2
    /\ index["a_0"].metadata.text = "x0"
    /\ index["a_1"].metadata.text = "y1"

\* The texts ts joined by newlines, in order.
NewlineJoined(ts) ==
    LET f[i \in 0..Len(ts)] ==
            IF i = 0 THEN ""
            ELSE IF i = 1 THEN ts[1]
            ELSE f[i - 1] \o "\n" \o ts[i]
    IN  f[Len(ts)]

\* C13: the query asks the Vector Index for the top 5 records filtered to
\* the request's document_ids; every record that comes back is a record of
\* the index whose payload doc_id is one of the request's ids, there are at
\* most 5 of them, and the context put into the prompt is exactly their
\* texts joined by newlines in the order returned, so that no text of a
\* document the request does not name is in the prompt.
C13_ContextOnlyFromNamedDocuments ==
    QueryHandled =>
        /\ \A i \in CallsTo("query") :
              trace[i].arg = [top_k |-> 5, filter |-> request.document_ids]
        /\ Len(Matches) <= 5
        /\ \A p \in 1..Len(Matches) :
              /\ Matches[p].metadata.doc_id \in Range(request.document_ids)
              /\ Matches[p].id \in DOMAIN index
              /\ index[Matches[p].id].metadata = Matches[p].metadata
        /\ \A i \in CallsTo("call_llm") :
              trace[i].arg[2] =
                  NewlineJoined([p \in 1..Len(Matches) |-> Matches[p].metadata.text])

\* A query naming document a alone got both of its records back while the
\* index also holds records of document a_1.
C13_Witness ==
    /\ QueryHandled
    /\ request.document_ids = <<"a">>
    /\ Len(Matches) = 2
    /\ RecordIdsOf(index, "a_1") # {}
    /\ CallsTo("call_llm") # {}

\* C20: a metrics record with status completed carries exactly the values
\* returned to the caller: the query answered 200 and the record has the
\* response's run_id, token counts, response time and confidence, with
\* agent_name RAGQueryAgent; every 200 answer has such a record; and the
\* run_id is the one generated by this invocation's own uuid4 call.
C20_CompletedRecordCarriesResponseValues ==
    QueryHandled =>
        /\ \A i \in CallsTo("send_metrics") :
              trace[i].arg.status = "completed" =>
                  /\ response.status = 200
                  /\ trace[i].arg.agent_name = "RAGQueryAgent"
                  /\ trace[i].arg.run_id = response.body.run_id
                  /\ trace[i].arg.tokens_consumed = response.body.tokens_consumed
                  /\ trace[i].arg.tokens_generated = response.body.tokens_generated
                  /\ trace[i].arg.response_time_ms = response.body.response_time_ms
                  /\ trace[i].arg.confidence_score = response.body.confidence_score
        /\ response.status = 200 =>
              /\ \E i \in CallsTo("send_metrics") : trace[i].arg.status = "completed"
              /\ trace[1].fn = "uuid4"
              /\ response.body.run_id = trace[1].ret

\* C14: with a service token configured, an index or query call without an
\* Authorization header, or with a bearer token other than the configured
\* one, is answered 401, and nothing is done for it: no collaborator is
\* called and the Vector Index is unchanged.
C14_UnauthorizedCallRejected ==
    (/\ phase = "done"
     /\ op \in {"index", "query"}
     /\ serviceToken # ""
     /\ authorization # "Bearer " \o serviceToken) =>
        /\ response.status = 401
        /\ trace = <<>>
        /\ index = indexBefore

\* A Gateway call on one of its six routes has been answered.
GatewayDone ==
    /\ phase = "done"
    /\ op \in {"create_document", "get_document", "update_document", "delete_document",
               "index_document", "aws_query"}

\* The call carried no caller credential or an invalid one.
NoValidCredential == GatewayDone /\ authorization # "Basic admin:password"

\* C15: every Gateway route answers 401 to a call without valid caller
\* credentials, and such a call changes nothing: no store call is made (no
\* record created, updated or deleted, no blob deleted), nothing is
\* forwarded to the RAG Orchestrator, and the table and the bucket are as
\* before.
C15_UnauthenticatedGatewayCallRejected ==
    /\ [](NoValidCredential => response.status = 401 /\ trace = <<>>)
    /\ [][NoValidCredential' => documents' = documents /\ blobs' = blobs]_vars

\* An unauthenticated create for an id that has no record: 401, and the id
\* still has no record, while document d2 has one.
C15_Witness ==
    /\ NoValidCredential
    /\ op = "create_document"
    /\ authorization = ""
    /\ request.filename # Null
    /\ response.status = 401
    /\ "d1" \notin DOMAIN documents
    /\ "d2" \in DOMAIN documents

\* The answer a GET for doc_id gets from the Gateway in the current state of
\* the table, when the table answers.
FollowingGet(doc_id) ==
    get_document(doc_id, [now |-> "t1", raises |-> "none", msg |-> ""], documents, blobs).response

\* C16: a delete that asked for the blob to be purged, and whose blob delete
\* threw, is still answered 200 {status: deleted}; the metadata record is
\* gone, and a following GET for the id is answered 404.
C16_BlobDeleteFailureKeepsMetadataDelete ==
    (/\ GatewayDone
     /\ op = "delete_document"
     /\ \E i \in CallsTo("delete_object") : trace[i].raised) =>
        /\ request.delete_s3
        /\ response = [status |-> 200,
                       body |-> [status |-> "deleted", doc_id |-> request.doc_id]]
        /\ request.doc_id \notin DOMAIN documents
        /\ FollowingGet(request.doc_id).status = 404

\* The blob delete of a purging delete threw; the blob is still in the bucket.
C16_Witness ==
    /\ GatewayDone
    /\ op = "delete_document"
    /\ request.delete_s3
    /\ \E i \in CallsTo("delete_object") : trace[i].raised /\ trace[i].arg \in blobs
    /\ response.status = 200

\* C17: while a document record exists its filename and upload_timestamp do
\* not change, whatever Gateway calls are made; and a record only goes away
\* through a delete call for its id that is answered 200.
C17_FilenameAndTimestampImmutable ==
    [][\A d \in DOMAIN documents :
          IF d \in DOMAIN documents'
          THEN /\ documents'[d].filename = documents[d].filename
               /\ documents'[d].upload_timestamp = documents[d].upload_timestamp
          ELSE /\ op' = "delete_document"
               /\ request'.doc_id = d
               /\ response'.status = 200]_vars

\* An authenticated Gateway call has been answered and no store call failed.
GatewayServed ==
    /\ GatewayDone
    /\ authorization = "Basic admin:password"
    /\ \A i \in 1..Len(trace) : ~trace[i].raised

\* C18: document CRUD round-trips through the Gateway.  After a create
\* answered 201, a GET of the id returns 200 with the created doc_id,
\* filename and tags ({} when none were given); after an update answered
\* 200, a GET returns the tags and the storage key the update gave; after a
\* delete answered 200, a GET is answered 404; a GET is answered with the
\* record as stored; and a GET or DELETE of an id without a record is
\* answered 404 and leaves table and bucket as they were.
C18_CrudRoundTrips ==
    /\ [](GatewayServed =>
            /\ (op = "create_document" /\ response.status = 201) =>
                  LET got == FollowingGet(request.doc_id)
                  IN  /\ got.status = 200
                      /\ got.body.doc_id = request.doc_id
                      /\ got.body.filename = request.filename
                      /\ got.body.tags = IF request.tags = Null THEN "{}" ELSE request.tags
            /\ (op = "update_document" /\ response.status = 200) =>
                  LET got == FollowingGet(request.doc_id)
                  IN  /\ got.status = 200
                      /\ request.tags # Null => got.body.tags = request.tags
                      /\ request.s3_key # Null => got.body.s3_key = request.s3_key
            /\ (op = "delete_document" /\ response.status = 200) =>
                  FollowingGet(request.doc_id).status = 404
            /\ op = "get_document" =>
                  response = IF request.doc_id \in DOMAIN documents
                             THEN [status |-> 200, body |-> documents[request.doc_id]]
                             ELSE [status |-> 404, body |-> [detail |-> "Document not found"]])
    /\ [][(/\ GatewayServed'
           /\ op' \in {"get_document", "delete_document"}
           /\ request'.doc_id \notin DOMAIN documents) =>
              /\ response'.status = 404
              /\ documents' = documents
              /\ blobs' = blobs]_vars

\* A GET returned a record that was created and then updated: the created
\* filename with the updated tags and storage key.
C18_Witness ==
    /\ GatewayServed
    /\ op = "get_document"
    /\ response.status = 200
    /\ response.body.filename = "b.pdf"
    /\ response.body.tags = "{category: updated}"
    /\ response.body.s3_key = "k2"

\* C19: when the Gateway forwards an index trigger or a query and the RAG
\* Orchestrator answers with an HTTP error status, the Gateway answers its
\* caller with that status; when the forward fails at transport level, the
\* Gateway answers 500 with the transport error's message.
C19_ForwardPropagatesDownstreamFailure ==
    (/\ GatewayDone
     /\ op \in {"index_document", "aws_query"}
     /\ authorization = "Basic admin:password") =>
        /\ Cardinality(CallsTo("post")) = 1
        /\ \A i \in CallsTo("post") :
              LET down == trace[i].ret
              IN  /\ down.kind = "http_error" => response.status = down.status
                  /\ down.kind = "transport" =>
                        /\ trace[i].raised
                        /\ response.status = 500
                        /\ response.body.detail = down.text

\* A query forward was answered 422 by the orchestrator, and 422 by the Gateway.
C19_Witness ==
    /\ GatewayDone
    /\ op = "aws_query"
    /\ \E i \in CallsTo("post") : trace[i].ret.kind = "http_error" /\ trace[i].ret.status = 422
    /\ response.status = 422

\* C21: every RAG Run record a query emits to the Metrics Sink has
\* tokens_consumed >= 0, tokens_generated >= 0, response_time_ms >= 0, a
\* confidence_score within [0, 1] and a status of completed or failed,
\* whatever match scores the Vector Index returns.
C21_EmittedRecordsWithinRanges ==
    QueryHandled =>
        \A i \in CallsTo("send_metrics") :
            LET r == trace[i].arg
            IN  /\ r.tokens_consumed >= 0
                /\ r.tokens_generated >= 0
                /\ r.response_time_ms >= 0
                /\ r.confidence_score.den > 0
                /\ r.confidence_score.num >= 0
                /\ r.confidence_score.num <= 100 * r.confidence_score.den
                /\ r.status \in {"completed", "failed"}

\* C26: the status of a run's metrics record agrees with the answer the
\* caller got: a completed record is emitted only by a query answered 200,
\* a failed record only by a query answered with an error, and the records
\* emitted for one run_id all have the same status.
C26_MetricsStatusAgreesWithAnswer ==
    QueryHandled =>
        /\ \A i \in CallsTo("send_metrics") :
              /\ trace[i].arg.status = "completed" => response.status = 200
              /\ trace[i].arg.status = "failed" => response.status # 200
        /\ \A i, j \in CallsTo("send_metrics") :
              trace[i].arg.run_id = trace[j].arg.run_id =>
                  trace[i].arg.status = trace[j].arg.status

\* Valid document ids (non-blank strings), with underscores and digits.
SampleIds == KnownDocs \cup {"b", "a_0", "a_1_0", "a_", "1", "d1", "d10"}

\* The record ids main.py line 73 builds for a document of n chunks.
IdsBuilt(doc_id, n) ==
    LET chunks == ChunksOf("x", n)
        vectors == to_upsert(doc_id, embed_texts(chunks), chunks)
    IN  {vectors[i].id : i \in 1..Len(vectors)}

\* The record ids built for two different ids are different.
RecordIdsDisjoint ==
    \A A, B \in SampleIds :
        A # B => IdsBuilt(A, MaxChunks + 1) \cap IdsBuilt(B, MaxChunks + 1) = {}

\* C27: indexing document A never creates, replaces or removes a record
\* whose payload doc_id is another document B.  The record ids built for two
\* different valid ids are different (also for ids such as "a" and "a_1");
\* every record an upsert call made for A writes carries payload doc_id A
\* and does not take the id of a record another document had; and the
\* records of every document the request does not name are afterwards as
\* they were.
C27_IndexingLeavesOtherDocumentsRecords ==
    /\ RecordIdsDisjoint
    /\ IndexHandled =>
          /\ \A u \in CallsTo("upsert") :
                \A p \in 1..Len(trace[u].arg) :
                    LET v == trace[u].arg[p]
                    IN  /\ v.metadata.doc_id = trace[u].doc
                        /\ v.id \in DOMAIN indexBefore =>
                               indexBefore[v.id].metadata.doc_id = trace[u].doc
          /\ \A B \in KnownDocs :
                B \notin Range(request.document_ids) =>
                    /\ RecordIdsOf(index, B) = RecordIdsOf(indexBefore, B)
                    /\ \A k \in RecordIdsOf(indexBefore, B) : index[k] = indexBefore[k]

\* Document a alone was indexed with two chunks, which wrote the record
\* "a_1", while document a_1 had records, which are still there.
C27_Witness ==
    /\ Indexed("a")
    /\ request.document_ids = <<"a">>
    /\ Len(ChunksIndexed("a")) = 2
    /\ "a_1" \in RecordIdsOf(index, "a")
    /\ RecordIdsOf(indexBefore, "a_1") # {}
    /\ RecordIdsOf(index, "a_1") = RecordIdsOf(indexBefore, "a_1")


\* C28: a Gateway update never brings a document into existence: after a
\* PUT /aws/documents/{id} for an id that had no metadata record when the
\* update ran (never created, or deleted before), the table has no record
\* for the id and a following GET is answered 404.
C28_UpdateNeverCreatesDocument ==
    [][(/\ GatewayDone'
        /\ op' = "update_document"
        /\ phase = "idle"
        /\ request'.doc_id \notin DOMAIN documents) =>
           /\ request'.doc_id \notin DOMAIN documents'
           /\ get_document(request'.doc_id, [now |-> "t1", raises |-> "none", msg |-> ""],
                           documents', blobs').response.status = 404]_vars


\* A call of the Metrics Sink has been answered.
SinkDone == phase = "done" /\ op \in {"store_agent_metrics", "receive_metrics"}

\* What the caller of the sink sent as the record: the JSON text of the
\* body parsed, the event itself when it has no body, nothing (None) when
\* the body is absent.  raised: the body is not JSON.
BodySent ==
    IF op = "receive_metrics" THEN json_loads(request.body)
    ELSE IF request.kind = "dict" /\ "body" \in DOMAIN request.val
    THEN IF request.val.body = PyNone
         THEN [raised |-> FALSE, value |-> Other("NoneType", "null")]
         ELSE json_loads(request.val.body)
    ELSE IF request.kind = "str" THEN json_loads(request.val.text)
    ELSE [raised |-> FALSE, value |-> request]

\* The call reached the sink's own checks (the stub asks for a JSON content type).
SinkHandled == SinkDone /\ (op = "receive_metrics" => request.content_type = "application/json")

\* The body is a JSON object.
ObjectSent == SinkHandled /\ ~BodySent.raised /\ BodySent.value.kind = "dict"

\* The record sent has no run_id (absent, null or empty).
RunIdMissing == ObjectSent /\ Get(BodySent.value.val, "run_id", PyNone) \in {PyNone, ""}

\* The record sent has a run_id, and numbers where the RAG Run shape has numbers.
RunRecordSent ==
    /\ ObjectSent
    /\ ~RunIdMissing
    /\ Get(BodySent.value.val, "response_time_ms", "0.0") \in DecimalTexts
    /\ Get(BodySent.value.val, "confidence_score", "0.0") \in DecimalTexts

WriteFailed == \E i \in CallsTo("put_item") : trace[i].raised

\* C22: the Metrics Sink rejects a record without run_id with 400 and writes
\* nothing to the metrics table; a record with run_id, when the table takes
\* the write, is written with one put_item, under the key (run_id,
\* timestamp), and answered 200 {status: ok, run_id}.
C22_RunIdRequired ==
    /\ [](RunIdMissing => response.status = 400 /\ CallsTo("put_item") = {})
    /\ [][RunIdMissing' => agentMetrics' = agentMetrics]_vars
    /\ []((RunRecordSent /\ ~WriteFailed) =>
            LET run_id == BodySent.value.val.run_id
            IN  /\ response = [status |-> 200, body |-> [status |-> "ok", run_id |-> run_id]]
                /\ Cardinality(CallsTo("put_item")) = 1
                /\ \A i \in CallsTo("put_item") :
                      /\ trace[i].arg.run_id = run_id
                      /\ <<run_id, trace[i].arg.timestamp>> \in DOMAIN agentMetrics
                      /\ agentMetrics[<<run_id, trace[i].arg.timestamp>>] = trace[i].arg
                      /\ trace[i].arg.status = Get(BodySent.value.val, "status", "unknown")
                      /\ trace[i].arg.tokens_consumed =
                             Get(BodySent.value.val, "tokens_consumed", 0))

\* The Lambda stored the completed record of run r1, sent as a JSON body.
C22_Witness ==
    /\ SinkDone
    /\ op = "store_agent_metrics"
    /\ "body" \in DOMAIN request.val
    /\ RunRecordSent
    /\ response.status = 200
    /\ response.body.run_id = "r1"
    /\ \E k \in DOMAIN agentMetrics : k[1] = "r1" /\ agentMetrics[k].status = "completed"

\* The body is malformed: not JSON, absent, or JSON that is no object.
Malformed == SinkHandled /\ (BodySent.raised \/ BodySent.value.kind # "dict")

\* C23: the Metrics Sink answers 400, not 500, to every malformed body (a
\* body that is not JSON, an absent body, a body that parses to null, a
\* list, a number or a string), and writes nothing.
C23_MalformedBodyRejected ==
    Malformed => response.status = 400 /\ CallsTo("put_item") = {}

\* C24: the Metrics Sink is append-only per (run_id, timestamp): every
\* accepted write adds one record to the table and leaves every record the
\* table had, of the same run_id and of any other, as it was.
C24_AcceptedWriteAppends ==
    [][(SinkDone' /\ phase = "idle" /\ response'.status = 200) =>
          /\ \A k \in DOMAIN agentMetrics :
                k \in DOMAIN agentMetrics' /\ agentMetrics'[k] = agentMetrics[k]
          /\ Cardinality(DOMAIN agentMetrics') = Cardinality(DOMAIN agentMetrics) + 1]_vars

\* C25: when the write to the metrics table fails, the sink answers 500
\* with the generic message, which carries nothing of the store's error,
\* and the table is unchanged; no call makes more than one write attempt.
C25_WriteFailureIsInternalError ==
    /\ [](SinkDone => Cardinality(CallsTo("put_item")) <= 1)
    /\ [](WriteFailed =>
            /\ SinkDone
            /\ response \in {[status |-> 500, body |-> [error |-> "Internal server error"]],
                             [status |-> 500, body |-> [detail |-> "Internal server error"]]}
            /\ \A i \in CallsTo("put_item") : trace[i].error # "Internal server error")
    /\ [][WriteFailed' => agentMetrics' = agentMetrics]_vars

\* The table refused the write of a record of run r1, of which it holds an
\* earlier record.
C25_Witness ==
    /\ SinkDone
    /\ op = "store_agent_metrics"
    /\ WriteFailed
    /\ RunRecordSent
    /\ BodySent.value.val.run_id = "r1"
    /\ response.status = 500
    /\ \E k \in DOMAIN agentMetrics : k[1] = "r1"


\* An upload to the Document Service has been answered.
UploadDone == phase = "done" /\ op = "upload_pdfs"

\* The upload was refused because of a file whose name does not end in .pdf.
UploadRefused ==
    /\ UploadDone
    /\ response.status = 400
    /\ \E i \in 1..Len(request.files) : ~endswith_pdf(request.files[i].filename)

BlobKeyOf(row) == row.doc_id \o "/" \o row.filename

====
